---- MODULE Spec2Model ----
(***************************************************************************)
(* HeartQL: streaming ingest of a health export into a relational store    *)
(* (scripts/health_to_sqlite.py) and the post-processing stage that        *)
(* imports workout routes and ECG files (scripts/health_postprocess.py).   *)
(*                                                                         *)
(* These specifications share the module:                                  *)
(*   Spec       the ingest runs (health_to_sqlite.main)                    *)
(*   SpecRoute  the per-file route computation (distance, bounding box)    *)
(*   SpecPost   the post-process runs over the auxiliary directories       *)
(*   SpecAlias  the post-process runs on a filled store: aliases and views *)
(*   SpecNorm   normalize_source_name                                      *)
(*   SpecElem   the tuple that main builds from one element of the export  *)
(*   SpecEcg    the parse of one ECG file and the row built from it        *)
(*   SpecInventory  the inventory of an export (scripts/health_inventory.py) *)
(***************************************************************************)
EXTENDS Integers, Sequences, FiniteSets, TLC

VARIABLES
  \* ---- ingest (health_to_sqlite.py) ----
  db,               \* committed rows of the base tables, per table, in insert order
  indexed,          \* TRUE once create_indexes has committed
  pc,               \* "idle" | "parse" | "exited" | "killed"
  exit_status,      \* NoExit, or the process exit status of the last run
  error,            \* the exception that ended the last run, or NoError
  id_ctr,           \* record_id, workout_id, ... : one counter per entity kind
  rows_by_table,    \* the in-memory buffers
  in_record,
  record_metadata,
  batch_size,       \* args.batch_size
  with_metadata,    \* args.with_metadata
  stack,            \* the parser's open elements (innermost last)
  nelems,           \* elements started so far, over all runs (bounds the model)
  nruns,            \* ingest runs started
  seen,             \* history: per kind, the elements of that kind ended in this run
  base,             \* history: db when the run started
  emitted,          \* history: per table, the rows this run has produced
  lost,             \* history: the buffers at the moment the run was interrupted
  \* ---- one track file (health_postprocess.py, import_workout_routes) ----
  trkpts,           \* the trkpt elements of the file: attribute and child texts
  route,            \* None, or Some(the row computed for the file)
  route_points,     \* the point rows computed for the file
  rphase,           \* "idle" | "file" | "done"
  \* ---- post-process runs (health_postprocess.py) ----
  routes_dir,       \* None, or Some(the files of the directory: name -> trkpt elements)
  ecg_dir,          \* None, or Some(the files of the directory: name -> csv rows)
  workout_routes,        \* the rows of each table, in insert order
  workout_route_points,
  ecg_records,
  ecg_samples,
  ppc,              \* "off" | "idle" | "main_routes" | "routes" | "main_ecg" | "ecg"
                    \*   | "main_end" | "done" | "killed"
  skip_existing,    \* args.skip_existing
  no_routes,        \* args.no_routes
  no_ecg,           \* args.no_ecg
  existing,         \* locals of import_workout_routes / import_ecg
  names_left,       \*   what is left of sorted(os.listdir(dir))
  route_rows,
  point_rows,
  route_id,
  record_rows,
  sample_rows,
  ecg_id,
  inserted,
  routes_added,     \* locals of main
  ecg_added,
  nposts,           \* post-process runs started   (the two together bound
  nwrites,          \* writes between runs so far   the model: MaxPostSteps)
  tables0,          \* history: the four tables when the run started
  prev_dirs,        \* history: the directories as the last completed run over both saw them
  rerun,            \* history: this run started on directories unchanged since then
  only_skip,        \* history: every run started so far had skip-existing enabled
  interrupted,      \* history: a run was terminated from outside
  \* ---- source names, the alias table and the views (health_postprocess.py) ----
  source_aliases,   \* the rows of the table: raw_source, normalized_source
  views,            \* the views that exist
  records_norm_rows,  \* None, or Some(what the last SELECT on records_norm returned)
  value_in,         \* normalize_source_name: the argument,
  normalized,       \*   the result,
  renormalized,     \*   and the result of normalizing the result
  nphase,           \* "off" | "raw" | "once" | "twice"
  \* ---- one element of the export (health_to_sqlite.py, main) ----
  elem,             \* the element of the "end" event: its tag and its attributes
  kind_id,          \* the id counter of the element's kind
  appended,         \* the tuples appended to the buffer of the kind's table
  bphase,           \* "off" | "event" | "done"
  \* ---- one ECG file (health_postprocess.py, import_ecg) ----
  csv_rows,         \* the rows csv.reader yields: sequences of field texts
  ecg_parsed,       \* what parse_ecg_csv returned: metadata and samples
  ecg_row,          \* None, or Some(the row built for the file)
  ecg_sample_rows,  \* the sample rows built for the file
  ephase,           \* "off" | "file" | "done"
  \* ---- the inventory (health_inventory.py) ----
  export,           \* the elements of the export, in the order of their "end" events
  max_elements,     \* args.max_elements
  processed,
  counters,         \* totals, record_types, ... : the Counters of main
  inventory,        \* None, or Some(the JSON written to args.out)
  ipc,              \* "off" | "idle" | "loop" | "summary" | "exited"
  inventory_status  \* NoExit, or the exit status of the inventory run

ingestLocals == <<indexed, pc, exit_status, error, id_ctr, rows_by_table,
                  in_record, record_metadata, batch_size, with_metadata, stack,
                  nelems, nruns, seen, base, emitted, lost>>

ingestVars == <<db, ingestLocals>>

routeVars == <<trkpts, route, route_points, rphase>>

postVars == <<routes_dir, ecg_dir, workout_routes, workout_route_points, ecg_records,
              ecg_samples, ppc, skip_existing, no_routes, no_ecg, existing, names_left,
              route_rows, point_rows, route_id, record_rows, sample_rows, ecg_id,
              inserted, routes_added, ecg_added, nposts, nwrites, tables0, prev_dirs,
              rerun,
                 only_skip, interrupted>>

aliasVars == <<source_aliases, views, records_norm_rows>>

normVars == <<value_in, normalized, renormalized, nphase>>

elemVars == <<elem, kind_id, appended, bphase>>

ecgVars == <<csv_rows, ecg_parsed, ecg_row, ecg_sample_rows, ephase>>

inventoryVars == <<export, max_elements, processed, counters, inventory, ipc,
                   inventory_status>>

vars == <<ingestVars, routeVars, postVars, aliasVars, normVars, elemVars, ecgVars,
          inventoryVars>>

-----------------------------------------------------------------------------
(* Bounds of the model *)

MaxElems == 3
MaxDepth == 2
MaxBatch == 2
MaxRuns == 2
MaxPoints == 3
MaxPostSteps == 4
MaxNameLen == 3
MaxOdd == 2
MaxCsvRows == 3
MaxRateLen == 3
MaxStream == 3
MaxCap == 2
MaxStoreRows == 2
FlushRows == 2

-----------------------------------------------------------------------------
(* health_to_sqlite.py *)

NoError == "NoError"
NoExit == -1

Kinds == {"Record", "Workout", "Correlation", "ActivitySummary",
          "ClinicalRecord", "Audiogram", "VisionPrescription"}

Tags == Kinds \cup {"MetadataEntry", "Other"}

EntityTables == {"records", "workouts", "correlations", "activity_summaries",
                 "clinical_records", "audiograms", "vision_prescriptions"}

Tables == EntityTables \cup {"record_metadata"}

TableOf(tag) ==
  CASE tag = "Record" -> "records"
    [] tag = "Workout" -> "workouts"
    [] tag = "Correlation" -> "correlations"
    [] tag = "ActivitySummary" -> "activity_summaries"
    [] tag = "ClinicalRecord" -> "clinical_records"
    [] tag = "Audiogram" -> "audiograms"
    [] tag = "VisionPrescription" -> "vision_prescriptions"

\* the nesting the export uses: metadata entries inside records, workouts and
\* correlations, records inside correlations, unknown children anywhere
Children(parent) ==
  CASE parent = "Record" -> {"MetadataEntry", "Other"}
    [] parent = "Workout" -> {"MetadataEntry", "Other"}
    [] parent = "Correlation" -> {"MetadataEntry", "Record"}
    [] parent = "Other" -> {"Other"}
    [] OTHER -> {}

MetaKeys == {"k1", "k2"}
MetaValues == {"v1"}
BatchSizes == 0..MaxBatch
OpenOutcomes == {"ok", "FileNotFoundError", "IsADirectoryError"}

EmptyTables == [t \in Tables |-> <<>>]

\* a row of an entity table: its id and, standing for the attribute tuple, which
\* element of its kind in the stream it was built from
EntityRow(id, nth) == [id |-> id, nth |-> nth]

MetadataRow(record_id, kv) == [record_id |-> record_id, key |-> kv[1], value |-> kv[2]]

Ids(rows) == {rows[i].id : i \in DOMAIN rows}

\* INSERT into a table whose id is INTEGER PRIMARY KEY fails on an id already there
PrimaryKeyConflict(stored, rows) ==
  \E t \in EntityTables :
    \/ Ids(stored[t]) \cap Ids(rows[t]) # {}
    \/ Cardinality(Ids(rows[t])) # Len(rows[t])

\* flush: one executemany per non-empty buffer, then commit
FlushReplaces(stored, rows) ==
  [t \in Tables |-> IF rows[t] # <<>> THEN rows[t] ELSE stored[t]]

flush(stored, rows) ==
  [t \in Tables |-> stored[t] \o rows[t]]

\* the batch test after every end event reads the records buffer only
ThresholdReached(rows, bs) == Len(rows["records"]) >= bs

\* return 2 / return 0; an exception nobody catches ends the interpreter with 1
ExitNotFoundUncaught(err) ==
  IF err = NoError THEN 0 ELSE 1

ExitStatusOf(err) ==
  CASE err = NoError -> 0
    [] err = "FileNotFoundError" -> 2
    [] OTHER -> 1

\* init_db: the schema script creates the tables that are not there yet, and no
\* index; create_indexes creates the five indexes that are not there yet
SchemaWithIndexes(ix) == TRUE

init_db(ix) == ix

create_indexes(ix) == TRUE

IngestInit ==
  /\ db = EmptyTables
  /\ indexed = FALSE
  /\ pc = "idle"
  /\ exit_status = NoExit
  /\ error = NoError
  /\ id_ctr = [k \in Kinds |-> 0]
  /\ rows_by_table = EmptyTables
  /\ in_record = FALSE
  /\ record_metadata = <<>>
  /\ batch_size = 1
  /\ with_metadata = FALSE
  /\ stack = <<>>
  /\ nelems = 0
  /\ nruns = 0
  /\ seen = [k \in Kinds |-> 0]
  /\ base = EmptyTables
  /\ emitted = EmptyTables
  /\ lost = EmptyTables

\* main, lines 235-254: parse_args, connect, init_db, the locals, and the open
\* that iterparse does inside the try
StartRun(bs, wm, outcome) ==
  /\ pc \in {"idle", "exited", "killed"}
  /\ nruns < MaxRuns
  /\ nruns' = nruns + 1
  /\ batch_size' = bs
  /\ with_metadata' = wm
  /\ id_ctr' = [k \in Kinds |-> 0]
  /\ rows_by_table' = EmptyTables
  /\ in_record' = FALSE
  /\ record_metadata' = <<>>
  /\ stack' = <<>>
  /\ seen' = [k \in Kinds |-> 0]
  /\ base' = db
  /\ emitted' = EmptyTables
  /\ lost' = EmptyTables
  /\ error' = IF outcome = "ok" THEN NoError ELSE outcome
  /\ pc' = IF outcome = "ok" THEN "parse" ELSE "exited"
  /\ exit_status' = IF outcome = "ok" THEN NoExit ELSE ExitStatusOf(outcome)
  /\ indexed' = init_db(indexed)
  /\ UNCHANGED <<db, nelems>>

\* a "start" event
StartElement(tag) ==
  /\ pc = "parse"
  /\ Len(stack) < MaxDepth
  /\ stack # <<>> => tag \in Children(stack[Len(stack)])
  /\ nelems < MaxElems
  /\ nelems' = nelems + 1
  /\ stack' = Append(stack, tag)
  /\ in_record' = IF tag = "Record" THEN TRUE ELSE in_record
  /\ record_metadata' = IF tag = "Record" THEN <<>> ELSE record_metadata
  /\ UNCHANGED <<db, indexed, pc, exit_status, error, id_ctr, rows_by_table,
                 batch_size, with_metadata, nruns, seen, base, emitted, lost>>

\* the test of the first branch of an "end" event: the entry goes to the buffer
CapturedWithoutFlag(tag, wm, inrec) == tag = "MetadataEntry" /\ inrec

Captured(tag, wm, inrec) == tag = "MetadataEntry" /\ wm /\ inrec

\* the rows an "end" event of `tag` appends, per table
RowsOfEnd(tag, kv) ==
  LET captured == Captured(tag, with_metadata, in_record)
      id == id_ctr[tag] + 1
  IN [t \in Tables |->
        IF captured \/ tag \notin Kinds THEN <<>>
        ELSE IF t = TableOf(tag) THEN <<EntityRow(id, seen[tag] + 1)>>
        ELSE IF t = "record_metadata" /\ tag = "Record" /\ with_metadata
          THEN [i \in 1..Len(record_metadata) |-> MetadataRow(id, record_metadata[i])]
        ELSE <<>>]

\* an "end" event: the dispatch on the tag, elem.clear(), the batch test and the
\* flush it may call.  When the run ends here, the locals of the process go with it.
EndElement(kv) ==
  /\ pc = "parse"
  /\ stack # <<>>
  /\ LET tag == stack[Len(stack)]
         captured == Captured(tag, with_metadata, in_record)
         isKind == ~captured /\ tag \in Kinds
         new == RowsOfEnd(tag, kv)
         buf == [t \in Tables |-> rows_by_table[t] \o new[t]]
         full == ThresholdReached(buf, batch_size)
         fails == full /\ PrimaryKeyConflict(db, buf)
     IN /\ seen' = IF isKind THEN [seen EXCEPT ![tag] = @ + 1] ELSE seen
        /\ emitted' = [t \in Tables |-> emitted[t] \o new[t]]
        /\ IF fails
             THEN \* IntegrityError: nothing of the open transaction is committed
                  /\ lost' = buf
                  /\ error' = "IntegrityError"
                  /\ pc' = "exited"
                  /\ exit_status' = ExitStatusOf("IntegrityError")
                  /\ rows_by_table' = EmptyTables
                  /\ id_ctr' = [k \in Kinds |-> 0]
                  /\ stack' = <<>>
                  /\ in_record' = FALSE
                  /\ record_metadata' = <<>>
                  /\ UNCHANGED db
             ELSE /\ stack' = SubSeq(stack, 1, Len(stack) - 1)
                  /\ record_metadata' = IF captured THEN Append(record_metadata, kv)
                                        ELSE record_metadata
                  /\ id_ctr' = IF isKind THEN [id_ctr EXCEPT ![tag] = @ + 1] ELSE id_ctr
                  /\ in_record' = IF isKind /\ tag = "Record" THEN FALSE ELSE in_record
                  /\ db' = IF full THEN flush(db, buf) ELSE db
                  /\ rows_by_table' = IF full THEN EmptyTables ELSE buf
                  /\ UNCHANGED <<pc, exit_status, error, lost>>
  /\ UNCHANGED <<indexed, batch_size, with_metadata, nelems, nruns, base>>

\* the loop ends: the final flush, create_indexes, close, return 0
EndOfStream ==
  /\ pc = "parse"
  /\ stack = <<>>
  /\ pc' = "exited"
  /\ IF PrimaryKeyConflict(db, rows_by_table)
       THEN /\ error' = "IntegrityError"
            /\ exit_status' = ExitStatusOf("IntegrityError")
            /\ lost' = rows_by_table
            /\ UNCHANGED <<db, indexed>>
       ELSE /\ db' = flush(db, rows_by_table)
            /\ indexed' = create_indexes(indexed)
            /\ exit_status' = ExitStatusOf(NoError)
            /\ UNCHANGED <<error, lost>>
  /\ rows_by_table' = EmptyTables
  /\ id_ctr' = [k \in Kinds |-> 0]
  /\ in_record' = FALSE
  /\ record_metadata' = <<>>
  /\ UNCHANGED <<batch_size, with_metadata, stack, nelems, nruns, seen, base, emitted>>

\* the process is terminated from outside between two events: its buffers are gone
Crash ==
  /\ pc = "parse"
  /\ pc' = "killed"
  /\ lost' = rows_by_table
  /\ rows_by_table' = EmptyTables
  /\ id_ctr' = [k \in Kinds |-> 0]
  /\ stack' = <<>>
  /\ in_record' = FALSE
  /\ record_metadata' = <<>>
  /\ UNCHANGED <<db, indexed, exit_status, error, batch_size, with_metadata, nelems,
                 nruns, seen, base, emitted>>

-----------------------------------------------------------------------------
(* health_postprocess.py: values *)

\* an optional value: None, or Some(v); Val reads the v of a Some
None == <<>>
Some(v) == <<v>>
Val(opt) == opt[1]

\* a text is a sequence of tokens: a token is one character (a digit, a sign, a
\* dot, a blank) or a word, which stands for a run of other characters
Digits == {"0", "1", "2", "3", "4", "5", "6", "7", "8", "9"}
Blanks == {" "}

DigitValue(c) ==
  CASE c = "0" -> 0 [] c = "1" -> 1 [] c = "2" -> 2 [] c = "3" -> 3 [] c = "4" -> 4
    [] c = "5" -> 5 [] c = "6" -> 6 [] c = "7" -> 7 [] c = "8" -> 8 [] c = "9" -> 9

AllDigits(text) == \A i \in DOMAIN text : text[i] \in Digits

RECURSIVE DigitsValue(_)
DigitsValue(text) ==
  IF text = <<>> THEN 0
  ELSE 10 * DigitsValue(SubSeq(text, 1, Len(text) - 1)) + DigitValue(text[Len(text)])

\* str.strip()
RECURSIVE lstrip(_)
lstrip(text) ==
  IF text # <<>> /\ text[1] \in Blanks THEN lstrip(Tail(text)) ELSE text

RECURSIVE rstrip(_)
rstrip(text) ==
  IF text # <<>> /\ text[Len(text)] \in Blanks
    THEN rstrip(SubSeq(text, 1, Len(text) - 1)) ELSE text

strip(text) == rstrip(lstrip(text))

\* the value of a decimal numeral, in tenths: whole digits, then the fraction
\* digits (the texts of the model carry at most one)
Tenths(whole, fraction) ==
  10 * DigitsValue(whole) + (IF fraction = <<>> THEN 0 ELSE DigitValue(fraction[1]))

\* float(text) on the texts of the model (blanks, a sign, digits, a dot, or no
\* number at all): Some(the number, in tenths), or None where Python raises
\* ValueError
float(text) ==
  LET t == strip(text)
      signed == t # <<>> /\ t[1] \in {"+", "-"}
      u == IF signed THEN Tail(t) ELSE t
      dots == {i \in DOMAIN u : u[i] = "."}
      dot == IF dots = {} THEN Len(u) + 1 ELSE CHOOSE i \in dots : \A k \in dots : i <= k
      whole == SubSeq(u, 1, dot - 1)
      fraction == SubSeq(u, dot + 1, Len(u))
      ok == /\ AllDigits(whole) /\ AllDigits(fraction)
            /\ whole # <<>> \/ fraction # <<>>
  IN IF ~ok THEN None
     ELSE IF signed /\ t[1] = "-" THEN Some(-Tenths(whole, fraction))
     ELSE Some(Tenths(whole, fraction))

ToFloatKeepsEmpty(value) ==
  IF value = None THEN None
  ELSE IF Val(value) = <<>> THEN Some(0)
  ELSE float(Val(value))

_to_float(value) ==
  IF value = None \/ Val(value) = <<>> THEN None
  ELSE float(Val(value))

-----------------------------------------------------------------------------
(* health_postprocess.py: haversine_km, in fixed-point arithmetic.  Angles are   *)
(* in units of 1/Scale radian, sines and cosines in units of 1/Scale, latitudes  *)
(* and longitudes in tenths of a degree, distances in units of 0.1 km.           *)

Scale == 10000
Pi == 31416
HalfPi == Pi \div 2
r == 63710

Mul(a, b) == IF a * b >= 0 THEN (a * b) \div Scale ELSE -((-(a * b)) \div Scale)

Sq(a) == Mul(a, a)

radians(deg) == IF deg >= 0 THEN (deg * Pi) \div 1800 ELSE -(((-deg) * Pi) \div 1800)

sin(a) ==
  LET x2 == Sq(a)
      h4 == Scale - x2 \div 72
      h3 == Scale - Mul(x2, h4) \div 42
      h2 == Scale - Mul(x2, h3) \div 20
      h1 == Scale - Mul(x2, h2) \div 6
  IN Mul(a, h1)

cos(a) ==
  LET x2 == Sq(a)
      h5 == Scale - x2 \div 90
      h4 == Scale - Mul(x2, h5) \div 56
      h3 == Scale - Mul(x2, h4) \div 30
      h2 == Scale - Mul(x2, h3) \div 12
  IN Scale - Mul(x2, h2) \div 2

RECURSIVE SqrtIter(_, _)
SqrtIter(n, g) ==
  LET g2 == (g + n \div g) \div 2 IN IF g2 >= g THEN g ELSE SqrtIter(n, g2)

sqrt(a) == IF a = 0 THEN 0 ELSE SqrtIter(a * Scale, a * Scale)

RECURSIVE AsinIter(_, _, _)
AsinIter(y, lo, hi) ==
  IF hi - lo <= 1 THEN (IF sin(hi) <= y THEN hi ELSE lo)
  ELSE LET mid == (lo + hi) \div 2
       IN IF sin(mid) <= y THEN AsinIter(y, mid, hi) ELSE AsinIter(y, lo, mid)

asin(y) == AsinIter(y, 0, HalfPi)

haversine_km(lat1, lon1, lat2, lon2) ==
  LET phi1 == radians(lat1)
      phi2 == radians(lat2)
      dphi == radians(lat2 - lat1)
      dlambda == radians(lon2 - lon1)
      a == Sq(sin(dphi \div 2))
             + Mul(Mul(cos(phi1), cos(phi2)), Sq(sin(dlambda \div 2)))
  IN (2 * r * asin(sqrt(a))) \div Scale

-----------------------------------------------------------------------------
(* health_postprocess.py: one track file *)

\* the trkpt loop: lat and lon attributes, the ele and time children
ParsePoints(elems) ==
  [i \in 1..Len(elems) |->
     [lat |-> _to_float(elems[i].lat), lon |-> _to_float(elems[i].lon),
      ele |-> _to_float(elems[i].ele), time |-> elems[i].time]]

\* min(xs) and max(xs) of a non-empty list, as a scan from its first element
RECURSIVE min(_)
min(xs) ==
  IF Len(xs) = 1 THEN xs[1]
  ELSE LET m == min(SubSeq(xs, 1, Len(xs) - 1))
       IN IF xs[Len(xs)] < m THEN xs[Len(xs)] ELSE m

RECURSIVE max(_)
max(xs) ==
  IF Len(xs) = 1 THEN xs[1]
  ELSE LET m == max(SubSeq(xs, 1, Len(xs) - 1))
       IN IF xs[Len(xs)] > m THEN xs[Len(xs)] ELSE m

HasLat(pt) == pt.lat # None
HasLon(pt) == pt.lon # None
HasBoth(pt) == pt.lat # None /\ pt.lon # None

LatsOfGeolocated(points) ==
  LET sel == SelectSeq(points, HasBoth) IN [i \in 1..Len(sel) |-> Val(sel[i].lat)]

\* lats = [p[0] for p in points if p[0] is not None]
Lats(points) ==
  LET sel == SelectSeq(points, HasLat) IN [i \in 1..Len(sel) |-> Val(sel[i].lat)]

LonsOfGeolocated(points) ==
  LET sel == SelectSeq(points, HasBoth) IN [i \in 1..Len(sel) |-> Val(sel[i].lon)]

\* lons = [p[1] for p in points if p[1] is not None]
Lons(points) ==
  LET sel == SelectSeq(points, HasLon) IN [i \in 1..Len(sel) |-> Val(sel[i].lon)]

\* the enumerate loop with distance_km += ... replaced by distance_km = ...
RECURSIVE DistanceLoopAssign(_, _, _, _)
DistanceLoopAssign(points, idx, last_point, distance_km) ==
  IF idx > Len(points) THEN distance_km
  ELSE LET pt == points[idx]
       IN IF HasBoth(pt)
            THEN DistanceLoopAssign(points, idx + 1, Some(<<Val(pt.lat), Val(pt.lon)>>),
                   IF last_point # None
                     THEN haversine_km(Val(pt.lat), Val(pt.lon),
                                       Val(last_point)[1], Val(last_point)[2])
                     ELSE distance_km)
            ELSE DistanceLoopAssign(points, idx + 1, last_point, distance_km)

\* the enumerate loop with last_point forgotten at a point that lacks a coordinate
RECURSIVE DistanceLoopNoBridge(_, _, _, _)
DistanceLoopNoBridge(points, idx, last_point, distance_km) ==
  IF idx > Len(points) THEN distance_km
  ELSE LET pt == points[idx]
       IN IF HasBoth(pt)
            THEN DistanceLoopNoBridge(points, idx + 1, Some(<<Val(pt.lat), Val(pt.lon)>>),
                   IF last_point # None
                     THEN distance_km + haversine_km(Val(pt.lat), Val(pt.lon),
                                                     Val(last_point)[1], Val(last_point)[2])
                     ELSE distance_km)
            ELSE DistanceLoopNoBridge(points, idx + 1, None, distance_km)

\* the enumerate loop of lines 260-268, from point idx on
RECURSIVE DistanceLoop(_, _, _, _)
DistanceLoop(points, idx, last_point, distance_km) ==
  IF idx > Len(points) THEN distance_km
  ELSE LET pt == points[idx]
       IN IF HasBoth(pt)
            THEN DistanceLoop(points, idx + 1, Some(<<Val(pt.lat), Val(pt.lon)>>),
                   IF last_point # None
                     THEN distance_km + haversine_km(Val(pt.lat), Val(pt.lon),
                                                     Val(last_point)[1], Val(last_point)[2])
                     ELSE distance_km)
            ELSE DistanceLoop(points, idx + 1, last_point, distance_km)

RouteDistanceAssign(points) == DistanceLoopAssign(points, 1, None, 0)

RouteDistanceNoBridge(points) == DistanceLoopNoBridge(points, 1, None, 0)

RouteDistance(points) == DistanceLoop(points, 1, None, 0)

BoundsOfGeolocated(points) ==
  LET lats == LatsOfGeolocated(points)
      lons == LonsOfGeolocated(points)
  IN [min_lat |-> IF lats # <<>> THEN Some(min(lats)) ELSE None,
      max_lat |-> IF lats # <<>> THEN Some(max(lats)) ELSE None,
      min_lon |-> IF lons # <<>> THEN Some(min(lons)) ELSE None,
      max_lon |-> IF lons # <<>> THEN Some(max(lons)) ELSE None]

\* min_lat, max_lat, min_lon, max_lon of lines 251-256
RouteBounds(points) ==
  LET lats == Lats(points)
      lons == Lons(points)
  IN [min_lat |-> IF lats # <<>> THEN Some(min(lats)) ELSE None,
      max_lat |-> IF lats # <<>> THEN Some(max(lats)) ELSE None,
      min_lon |-> IF lons # <<>> THEN Some(min(lons)) ELSE None,
      max_lon |-> IF lons # <<>> THEN Some(max(lons)) ELSE None]

\* the tuple appended to route_rows, for a file with at least one point
RouteRow(rid, path, points) ==
  LET box == RouteBounds(points)
  IN [id |-> rid, file_path |-> path,
      start_time |-> points[1].time, end_time |-> points[Len(points)].time,
      point_count |-> Len(points), distance_km |-> RouteDistance(points),
      min_lat |-> box.min_lat, max_lat |-> box.max_lat,
      min_lon |-> box.min_lon, max_lon |-> box.max_lon]

\* the tuples appended to point_rows
PointRows(rid, points) ==
  [i \in 1..Len(points) |->
     [route_id |-> rid, point_index |-> i - 1, lat |-> points[i].lat,
      lon |-> points[i].lon, ele |-> points[i].ele, time |-> points[i].time]]

\* the track files of the model: texts of lat and lon attributes
T0 == <<"0">>
T30 == <<"3", "0">>
TNeg60 == <<"-", "6", "0">>
T90 == <<"9", "0">>
TBad == <<"x">>
TEmpty == <<>>

LatTexts == {None, Some(TBad), Some(T0), Some(T30), Some(TNeg60)}
LonTexts == {Some(TEmpty), Some(T0), Some(T90)}
RawPoints == [lat : LatTexts, lon : LonTexts, ele : {None}, time : {None}]

BoundedSeq(S, n) == UNION {[1..k -> S] : k \in 0..n}

RouteInit ==
  /\ trkpts \in BoundedSeq(RawPoints, MaxPoints)
  /\ route = None
  /\ route_points = <<>>
  /\ rphase = "file"

RouteIdle ==
  /\ trkpts = <<>>
  /\ route = None
  /\ route_points = <<>>
  /\ rphase = "idle"

\* the body of the file loop of import_workout_routes for one file: parse, skip a
\* file without points, compute the row and the point rows
ComputeRoute ==
  /\ rphase = "file"
  /\ rphase' = "done"
  /\ LET points == ParsePoints(trkpts)
     IN IF points = <<>>
          THEN UNCHANGED <<route, route_points>>
          ELSE /\ route' = Some(RouteRow(1, "a.gpx", points))
               /\ route_points' = PointRows(1, points)
  /\ UNCHANGED trkpts

-----------------------------------------------------------------------------
(* health_postprocess.py: one ECG file *)

\* a dict, in insertion order: a sequence of <<key, value>> with distinct keys
DictGet(dict, key) ==
  IF \E i \in DOMAIN dict : dict[i][1] = key
    THEN Some(dict[CHOOSE i \in DOMAIN dict : dict[i][1] = key][2])
    ELSE None

DictSet(dict, key, value) ==
  IF \E i \in DOMAIN dict : dict[i][1] = key
    THEN [i \in DOMAIN dict |-> IF dict[i][1] = key THEN <<key, value>> ELSE dict[i]]
    ELSE Append(dict, <<key, value>>)

\* json.dumps of a dict of texts: the pairs, in order
json_dumps(dict) == [json |-> dict]

\* the pattern without its end anchor: ^[+-]?\d+
NumberReOpenEnded(text) ==
  LET signed == text # <<>> /\ text[1] \in {"+", "-"}
      u == IF signed THEN Tail(text) ELSE text
  IN u # <<>> /\ u[1] \in Digits

\* number_re = ^[+-]?\d+(\.\d+)?$
number_re_match(text) ==
  LET signed == text # <<>> /\ text[1] \in {"+", "-"}
      u == IF signed THEN Tail(text) ELSE text
      dots == {i \in DOMAIN u : u[i] = "."}
      dot == IF dots = {} THEN Len(u) + 1 ELSE CHOOSE i \in dots : \A k \in dots : i <= k
      whole == SubSeq(u, 1, dot - 1)
      fraction == SubSeq(u, dot + 1, Len(u))
  IN /\ whole # <<>> /\ AllDigits(whole)
     /\ dots # {} => (fraction # <<>> /\ AllDigits(fraction))

\* the row loop of parse_ecg_csv, from row idx on
RECURSIVE EcgRowLoop(_, _, _, _)
EcgRowLoop(rows, idx, metadata, samples) ==
  IF idx > Len(rows) THEN [metadata |-> metadata, samples |-> samples]
  ELSE LET row == rows[idx]
       IN IF row = <<>> THEN EcgRowLoop(rows, idx + 1, metadata, samples)
          ELSE IF Len(row) = 1
            THEN LET value == strip(row[1])
                 IN IF value # <<>> /\ number_re_match(value)
                      THEN EcgRowLoop(rows, idx + 1, metadata,
                                      Append(samples, Val(float(value))))
                      ELSE EcgRowLoop(rows, idx + 1, metadata, samples)
          ELSE EcgRowLoop(rows, idx + 1,
                          DictSet(metadata, strip(row[1]), strip(row[2])), samples)

parse_ecg_csv(rows) == EcgRowLoop(rows, 1, <<>>, <<>>)

\* the longest run of digits of text that starts at position i: its last position
RECURSIVE DigitRunEnd(_, _)
DigitRunEnd(text, i) ==
  IF i + 1 <= Len(text) /\ text[i + 1] \in Digits THEN DigitRunEnd(text, i + 1) ELSE i

\* float of the whole value
SampleRateOfWholeValue(value) == _to_float(value)

\* re.search(r"([0-9]+(\.[0-9]+)?)", value), then float of the match
_parse_sample_rate(value) ==
  IF value = None \/ Val(value) = <<>> THEN None
  ELSE LET text == Val(value)
           at == {i \in DOMAIN text : text[i] \in Digits}
       IN IF at = {} THEN None
          ELSE LET first == CHOOSE i \in at : \A k \in at : i <= k
                   last == DigitRunEnd(text, first)
                   hasFraction == /\ last + 2 <= Len(text)
                                  /\ text[last + 1] = "."
                                  /\ text[last + 2] \in Digits
                   whole == SubSeq(text, first, last)
                   fraction == IF hasFraction
                                 THEN SubSeq(text, last + 2, DigitRunEnd(text, last + 2))
                                 ELSE <<>>
               IN Some(Tenths(whole, fraction))

\* the tuple appended to record_rows
EcgRow(eid, path, metadata) ==
  [id |-> eid, file_path |-> path,
   recorded_date |-> DictGet(metadata, <<"Recorded Date">>),
   classification |-> DictGet(metadata, <<"Classification">>),
   symptoms |-> DictGet(metadata, <<"Symptoms">>),
   sample_rate_hz |-> _parse_sample_rate(DictGet(metadata, <<"Sample Rate">>)),
   lead |-> DictGet(metadata, <<"Lead">>),
   unit |-> DictGet(metadata, <<"Unit">>),
   device |-> DictGet(metadata, <<"Device">>),
   software_version |-> DictGet(metadata, <<"Software Version">>),
   extra_json |-> json_dumps(metadata)]

\* the tuples appended to sample_rows
SampleRows(eid, samples) ==
  [i \in 1..Len(samples) |-> [ecg_id |-> eid, sample_index |-> i - 1, value |-> samples[i]]]

-----------------------------------------------------------------------------
(* health_to_sqlite.py: the tuple an element is turned into *)

\* elem.attrib is a function from the names of the attributes the element carries
\* to their texts; attrs.get(key) is None for an attribute it does not carry
GetOrUnknown(attrs, key) ==
  IF key \in DOMAIN attrs THEN Some(attrs[key]) ELSE Some(<<"Unknown">>)

get(attrs, key) ==
  IF key \in DOMAIN attrs THEN Some(attrs[key]) ELSE None

\* a column fed by attrs.get(key), and one fed by _to_float(attrs.get(key))
Plain(key) == [key |-> key, numeric |-> FALSE]
Float(key) == [key |-> key, numeric |-> TRUE]

\* the columns after the id of the tuple that each branch of main appends
Columns(tag) ==
  CASE tag = "Record" ->
         <<Plain("type"), Plain("unit"), Plain("value"), Plain("sourceName"),
           Plain("sourceVersion"), Plain("device"), Plain("creationDate"),
           Plain("startDate"), Plain("endDate")>>
    [] tag = "Workout" ->
         <<Plain("workoutActivityType"), Float("duration"), Plain("durationUnit"),
           Float("totalEnergyBurned"), Plain("totalEnergyBurnedUnit"),
           Float("totalDistance"), Plain("totalDistanceUnit"), Plain("sourceName"),
           Plain("sourceVersion"), Plain("device"), Plain("creationDate"),
           Plain("startDate"), Plain("endDate")>>
    [] tag = "Correlation" ->
         <<Plain("type"), Plain("sourceName"), Plain("sourceVersion"), Plain("device"),
           Plain("creationDate"), Plain("startDate"), Plain("endDate")>>
    [] tag = "ActivitySummary" ->
         <<Plain("dateComponents"), Float("activeEnergyBurned"),
           Float("activeEnergyBurnedGoal"), Plain("activeEnergyBurnedUnit"),
           Float("appleMoveTime"), Float("appleMoveTimeGoal"),
           Float("appleExerciseTime"), Float("appleExerciseTimeGoal"),
           Float("appleStandHours"), Float("appleStandHoursGoal")>>
    [] tag = "ClinicalRecord" ->
         <<Plain("type"), Plain("sourceName"), Plain("sourceVersion"), Plain("device"),
           Plain("creationDate"), Plain("startDate"), Plain("endDate"),
           Plain("displayName")>>
    [] tag = "Audiogram" ->
         <<Plain("sourceName"), Plain("sourceVersion"), Plain("device"),
           Plain("creationDate"), Plain("startDate"), Plain("endDate")>>
    [] tag = "VisionPrescription" ->
         <<Plain("sourceName"), Plain("sourceVersion"), Plain("device"),
           Plain("creationDate"), Plain("startDate"), Plain("endDate")>>
    [] OTHER -> <<>>

\* the branches whose tuple ends with json.dumps(attrs)
KeepsJson == {"ClinicalRecord", "Audiogram", "VisionPrescription"}

Cell(attrs, col) ==
  IF col.numeric THEN _to_float(get(attrs, col.key)) ELSE get(attrs, col.key)

\* the tuple appended to rows_by_table[TableOf(tag)]
Row(tag, id, attrs) ==
  [id |-> id,
   cells |-> [i \in DOMAIN Columns(tag) |-> Cell(attrs, Columns(tag)[i])],
   raw_json |-> IF tag \in KeepsJson THEN Some(json_dumps(attrs)) ELSE None]

\* the elements of the model: every attribute that main reads is there with a
\* usual text, except for at most MaxOdd attributes, which are missing or carry
\* an unusual text; an element may also carry an attribute named id
TWord == <<"w">>
TPadded == <<" ", "3", "0", " ">>
T1p5 == <<"1", ".", "5">>

AttrNames(tag) == {Columns(tag)[i].key : i \in DOMAIN Columns(tag)} \cup {"id"}

IsNumeric(tag, key) == \E i \in DOMAIN Columns(tag) : Columns(tag)[i] = Float(key)

Usual(tag, key) ==
  IF key = "id" THEN None
  ELSE IF IsNumeric(tag, key) THEN Some(T30) ELSE Some(TWord)

Odd(tag, key) ==
  IF key = "id" THEN {Some(T90)}
  ELSE IF IsNumeric(tag, key)
    THEN {None, Some(TEmpty), Some(TBad), Some(TNeg60), Some(TPadded), Some(T1p5)}
    ELSE {None, Some(TEmpty)}

OddChoices(tag) ==
  UNION {{odd \in [D -> UNION {Odd(tag, key) : key \in D}] :
            \A key \in D : odd[key] \in Odd(tag, key)} :
         D \in {S \in SUBSET AttrNames(tag) : Cardinality(S) <= MaxOdd}}

Attribs(tag) ==
  LET value(odd, key) == IF key \in DOMAIN odd THEN odd[key] ELSE Usual(tag, key)
  IN {[key \in {k \in AttrNames(tag) : value(odd, k) # None} |-> Val(value(odd, key))] :
        odd \in OddChoices(tag)}

ElemInit ==
  /\ elem \in UNION {[tag : {tag}, attrib : Attribs(tag)] : tag \in Tags}
  /\ kind_id \in 0..1
  /\ appended = <<>>
  /\ bphase = "event"

ElemIdle ==
  /\ elem = [tag |-> "Other", attrib |-> <<>>]
  /\ kind_id = 0
  /\ appended = <<>>
  /\ bphase = "off"

\* the branch of main for the "end" event of one element of a kind: the counter
\* of the kind advances and the tuple is appended to the buffer of its table
AppendRow ==
  /\ bphase = "event"
  /\ bphase' = "done"
  /\ IF elem.tag \in Kinds
       THEN /\ kind_id' = kind_id + 1
            /\ appended' = Append(appended, Row(elem.tag, kind_id + 1, elem.attrib))
       ELSE UNCHANGED <<kind_id, appended>>
  /\ UNCHANGED elem

-----------------------------------------------------------------------------
(* health_postprocess.py: source names, the alias table and the views *)

\* the characters of a source name: "LSQUO" is U+2018, "RSQUO" is U+2019,
\* "NBSP" is U+00A0, "TAB" is U+0009; any other token is a letter or a word
Whitespace == {" ", "NBSP", "TAB"}

\* str.replace(old, new), old a single character
replace(text, old, new) == [i \in DOMAIN text |-> IF text[i] = old THEN new ELSE text[i]]

KeepWhitespace(text) == text

\* re.sub(r"\s+", " ", text): every run of whitespace becomes one space
RECURSIVE CollapseWhitespace(_)
CollapseWhitespace(text) ==
  IF text = <<>> THEN <<>>
  ELSE IF text[1] \in Whitespace
    THEN IF Len(text) > 1 /\ text[2] \in Whitespace
           THEN CollapseWhitespace(Tail(text))
           ELSE <<" ">> \o CollapseWhitespace(Tail(text))
  ELSE <<text[1]>> \o CollapseWhitespace(Tail(text))

\* normalize_source_name; the strip comes after the substitution, when every
\* whitespace character left is a space
normalize_source_name(value) ==
  IF value = None THEN None
  ELSE LET cleaned == replace(replace(replace(Val(value), "RSQUO", "'"), "LSQUO", "'"),
                              "NBSP", " ")
       IN Some(strip(CollapseWhitespace(cleaned)))

\* the names given to normalize_source_name in SpecNorm
NameChars == {"A", "'", "LSQUO", "RSQUO", " ", "NBSP"}
NameTexts == UNION {[1..k -> NameChars] : k \in 0..MaxNameLen}

NormInit ==
  /\ value_in \in {None} \cup {Some(t) : t \in NameTexts}
  /\ normalized = None
  /\ renormalized = None
  /\ nphase = "raw"

NormIdle ==
  /\ value_in = None
  /\ normalized = None
  /\ renormalized = None
  /\ nphase = "off"

\* normalize_source_name(value)
Normalize ==
  /\ nphase = "raw"
  /\ normalized' = normalize_source_name(value_in)
  /\ nphase' = "once"
  /\ UNCHANGED <<value_in, renormalized>>

\* normalize_source_name of the result
NormalizeAgain ==
  /\ nphase = "once"
  /\ renormalized' = normalize_source_name(normalized)
  /\ nphase' = "twice"
  /\ UNCHANGED <<value_in, normalized>>

\* the tables build_source_aliases reads (activity_summaries has no source_name)
SourceTables == {"records", "workouts", "correlations", "clinical_records",
                 "audiograms", "vision_prescriptions"}

\* SELECT DISTINCT source_name over the tables, the NULLs dropped
Sources(store) ==
  {Val(s) : s \in UNION {{store[t][i].source_name : i \in DOMAIN store[t]} :
                             t \in SourceTables} \ {None}}

\* build_source_aliases: INSERT OR REPLACE of one row per source; raw_source is
\* the PRIMARY KEY, so the row of a source that has one is replaced, and the
\* other rows of the table stay
build_source_aliases(store, aliases) ==
  LET sources == Sources(store)
      rows == {[raw_source |-> src, normalized_source |-> normalize_source_name(Some(src))] :
                 src \in sources}
  IN {a \in aliases : a.raw_source \notin sources} \cup rows

ViewNames == {"records_norm", "workouts_norm", "correlations_norm"}

ViewsReplaceRecords(store) == [store EXCEPT !["records"] = <<>>]

\* create_views: CREATE VIEW IF NOT EXISTS stores three queries; the rows of
\* the tables they read are what they were
create_views(store) == store

\* CAST(value AS REAL) in SQLite: NULL stays NULL; of a text the longest prefix
\* that is a number is converted, leading blanks skipped, and a text with no
\* such prefix gives 0.0. In tenths, as float.
CastReal(value) ==
  IF value = None THEN None
  ELSE LET t == lstrip(Val(value))
           signed == t # <<>> /\ t[1] \in {"+", "-"}
           u == IF signed THEN Tail(t) ELSE t
           sign == IF signed /\ t[1] = "-" THEN -1 ELSE 1
       IN IF u # <<>> /\ u[1] \in Digits
            THEN LET last == DigitRunEnd(u, 1)
                     hasFraction == /\ last + 2 <= Len(u)
                                    /\ u[last + 1] = "."
                                    /\ u[last + 2] \in Digits
                     fraction == IF hasFraction
                                   THEN SubSeq(u, last + 2, DigitRunEnd(u, last + 2))
                                   ELSE <<>>
                 IN Some(sign * Tenths(SubSeq(u, 1, last), fraction))
          ELSE IF Len(u) >= 2 /\ u[1] = "." /\ u[2] \in Digits
            THEN Some(sign * Tenths(<<>>, SubSeq(u, 2, DigitRunEnd(u, 2))))
          ELSE Some(0)

\* SELECT * FROM records_norm: the columns of records that the rows of the model
\* carry, source_name_norm from the LEFT JOIN on source_aliases, value_num
records_norm(store, aliases) ==
  [i \in DOMAIN store["records"] |->
     LET rec == store["records"][i]
         sa == {a \in aliases : rec.source_name = Some(a.raw_source)}
     IN [id |-> rec.id, source_name |-> rec.source_name, value |-> rec.value,
         source_name_norm |-> IF sa = {} THEN None
                              ELSE (CHOOSE a \in sa : TRUE).normalized_source,
         value_num |-> CastReal(rec.value)]]

\* a row of records, of workouts: EntityRow with the attributes that the alias
\* table and the views read spelled out (sourceName and value of the element)
RecordRow(id, attrs) ==
  [id |-> id, nth |-> id, source_name |-> attrs.source_name, value |-> attrs.value]

WorkoutRow(id, source_name) == [id |-> id, nth |-> id, source_name |-> source_name]

\* the attribute texts of the elements in SpecAlias
NameCurly == <<"A", "RSQUO", "s">>
NameStraight == <<"A", "'", "s">>
SourceTexts == {None, Some(NameCurly), Some(NameStraight)}
V120 == <<"1", "2", "0">>
VAbc == <<"abc">>
V12abc == <<"1", "2", "abc">>
ValueTexts == {None, Some(V120), Some(VAbc), Some(V12abc)}
RecordAttrs == [source_name : SourceTexts, value : ValueTexts]

\* the store after an ingest run over an export with these Record and Workout
\* elements: ids from 1, in stream order
StoreOf(records, workouts) ==
  [t \in Tables |->
     CASE t = "records" -> [i \in DOMAIN records |-> RecordRow(i, records[i])]
       [] t = "workouts" -> [i \in DOMAIN workouts |-> WorkoutRow(i, workouts[i])]
       [] OTHER -> <<>>]

AliasStores ==
  {StoreOf(records, workouts) :
     records \in UNION {[1..k -> RecordAttrs] : k \in 0..MaxStoreRows},
     workouts \in {<<>>, <<Some(NameStraight)>>}}

\* the state after that ingest run has exited with status 0
IngestedInit ==
  /\ db \in AliasStores
  /\ indexed = TRUE
  /\ pc = "exited"
  /\ exit_status = 0
  /\ error = NoError
  /\ id_ctr = [k \in Kinds |-> 0]
  /\ rows_by_table = EmptyTables
  /\ in_record = FALSE
  /\ record_metadata = <<>>
  /\ batch_size = 1
  /\ with_metadata = FALSE
  /\ stack = <<>>
  /\ nelems = 0
  /\ nruns = 1
  /\ seen = [k \in Kinds |-> 0]
  /\ base = EmptyTables
  /\ emitted = EmptyTables
  /\ lost = EmptyTables

AliasInit ==
  /\ source_aliases = {}
  /\ views = {}
  /\ records_norm_rows = None

-----------------------------------------------------------------------------
(* health_postprocess.py: the store and the directories *)

\* the default --routes-dir and --ecg-dir
ROUTES_DIR == "workout-routes"
ECG_DIR == "electrocardiograms"

\* a file name is a stem and an extension
lower(ext) ==
  CASE ext = ".GPX" -> ".gpx"
    [] ext = ".CSV" -> ".csv"
    [] OTHER -> ext

\* name.lower().endswith(suffix)
EndsWith(name, suffix) == lower(name.ext) = suffix

\* os.path.join(dir, name)
Join(dir, name) == [dir |-> dir, name |-> name]

\* the file names of the model, in the order sorted() gives them
SortedRouteNames == <<[stem |-> "B", ext |-> ".GPX"], [stem |-> "a", ext |-> ".gpx"],
                      [stem |-> "b", ext |-> ".txt"]>>
SortedEcgNames == <<[stem |-> "e", ext |-> ".csv"], [stem |-> "f", ext |-> ".CSV"]>>

Range(seq) == {seq[i] : i \in DOMAIN seq}

\* sorted(os.listdir(dir)) of a directory that exists
SortedListdir(dir, order) ==
  LET Present(n) == n \in DOMAIN Val(dir) IN SelectSeq(order, Present)

\* the track files of the model
Trkpt(lat, lon, time) == [lat |-> lat, lon |-> lon, ele |-> None, time |-> Some(<<time>>)]
GpxNoPoints == <<>>
GpxOnePoint == <<Trkpt(Some(T0), Some(T0), "t0")>>
GpxGap == <<Trkpt(Some(T0), Some(T0), "t1"), Trkpt(Some(TBad), Some(T90), "t2"),
            Trkpt(Some(T30), Some(T90), "t3")>>
GpxContents == {GpxNoPoints, GpxOnePoint, GpxGap}

\* what may be written under a name of the routes directory: a file that is not
\* a track file is never opened, one content stands for all
RouteFilesOf(name) == IF EndsWith(name, ".gpx") THEN GpxContents ELSE {GpxNoPoints}

\* the ECG files of the model, as the rows csv.reader yields
CsvNoSamples == << <<<<"Lead">>, <<"I">>>>, <<<<"n/a">>>> >>
CsvOneSample == << <<<<"7">>>> >>
CsvTwoSamples == << <<<<"Sample Rate">>, <<"5", "1", "2", " ", "Hz">>>>, <<>>,
                    <<<<" ", "1", ".", "5">>>>, <<<<"-", "2">>>> >>
CsvContents == {CsvNoSamples, CsvOneSample, CsvTwoSamples}

EmptyDir == Some(<<>>)

IsDirNever(dir) == FALSE

\* os.path.isdir(dir)
isdir(dir) == dir # None

NoSamplesIgnored(samples) == FALSE

\* import_ecg, line 344: not samples
NoSamples(samples) == samples = <<>>

ListNothing(table) == {}

\* list_existing: the file_path column of the table
list_existing(table) == {table[i].file_path : i \in DOMAIN table}

NextIdOne(table) == 1

\* _next_id: SELECT MAX(id), plus one; 1 on an empty table
_next_id(table) ==
  IF table = <<>> THEN 1
  ELSE (CHOOSE m \in Ids(table) : \A j \in Ids(table) : j <= m) + 1

\* INSERT OR REPLACE: the rows in conflict are deleted, then the row is inserted
RECURSIVE InsertOrReplace(_, _)
InsertOrReplace(table, rows) ==
  IF rows = <<>> THEN table
  ELSE LET row == Head(rows)
           Keeps(old) == old.id # row.id /\ old.file_path # row.file_path
       IN InsertOrReplace(Append(SelectSeq(table, Keeps), row), Tail(rows))

\* INSERT OR IGNORE, row by row: a row whose id (PRIMARY KEY) or file_path (UNIQUE)
\* is in the table already is dropped
RECURSIVE InsertOrIgnore(_, _)
InsertOrIgnore(table, rows) ==
  IF rows = <<>> THEN table
  ELSE LET row == Head(rows)
           conflict == \E i \in DOMAIN table :
                         table[i].id = row.id \/ table[i].file_path = row.file_path
       IN InsertOrIgnore(IF conflict THEN table ELSE Append(table, row), Tail(rows))

\* the test that triggers a flush inside the file loop (20000 rows in the code,
\* FlushRows in the model)
FlushDue(child_rows) == Len(child_rows) >= FlushRows

PostTables == <<workout_routes, workout_route_points, ecg_records, ecg_samples>>

PostLocalsReset ==
  /\ existing' = {}
  /\ names_left' = <<>>
  /\ route_rows' = <<>>
  /\ point_rows' = <<>>
  /\ route_id' = 0
  /\ record_rows' = <<>>
  /\ sample_rows' = <<>>
  /\ ecg_id' = 0
  /\ inserted' = 0

PostInit ==
  /\ routes_dir \in {None, EmptyDir}
  /\ ecg_dir \in {None, EmptyDir}
  /\ workout_routes = <<>>
  /\ workout_route_points = <<>>
  /\ ecg_records = <<>>
  /\ ecg_samples = <<>>
  /\ ppc = "idle"
  /\ skip_existing = TRUE
  /\ no_routes = FALSE
  /\ no_ecg = FALSE
  /\ existing = {}
  /\ names_left = <<>>
  /\ route_rows = <<>>
  /\ point_rows = <<>>
  /\ route_id = 0
  /\ record_rows = <<>>
  /\ sample_rows = <<>>
  /\ ecg_id = 0
  /\ inserted = 0
  /\ routes_added = 0
  /\ ecg_added = 0
  /\ nposts = 0
  /\ nwrites = 0
  /\ tables0 = <<<<>>, <<>>, <<>>, <<>>>>
  /\ prev_dirs = None
  /\ rerun = FALSE
  /\ only_skip = TRUE
  /\ interrupted = FALSE

PostIdle ==
  /\ routes_dir = None
  /\ ecg_dir = None
  /\ workout_routes = <<>>
  /\ workout_route_points = <<>>
  /\ ecg_records = <<>>
  /\ ecg_samples = <<>>
  /\ ppc = "off"
  /\ skip_existing = TRUE
  /\ no_routes = FALSE
  /\ no_ecg = FALSE
  /\ existing = {}
  /\ names_left = <<>>
  /\ route_rows = <<>>
  /\ point_rows = <<>>
  /\ route_id = 0
  /\ record_rows = <<>>
  /\ sample_rows = <<>>
  /\ ecg_id = 0
  /\ inserted = 0
  /\ routes_added = 0
  /\ ecg_added = 0
  /\ nposts = 0
  /\ nwrites = 0
  /\ tables0 = <<<<>>, <<>>, <<>>, <<>>>>
  /\ prev_dirs = None
  /\ rerun = FALSE
  /\ only_skip = TRUE
  /\ interrupted = FALSE

\* between two runs a track file is written (created, or rewritten with another
\* content)
WriteRoute(name, content) ==
  /\ ppc \in {"idle", "done", "killed"}
  /\ nposts + nwrites < MaxPostSteps
  /\ routes_dir # None
  /\ name \in DOMAIN Val(routes_dir) => Val(routes_dir)[name] # content
  /\ nwrites' = nwrites + 1
  /\ routes_dir' = Some([n \in DOMAIN Val(routes_dir) \cup {name} |->
                           IF n = name THEN content ELSE Val(routes_dir)[n]])
  /\ UNCHANGED <<ecg_dir, PostTables, ppc, skip_existing, no_routes, no_ecg, existing,
                 names_left, route_rows, point_rows, route_id, record_rows, sample_rows,
                 ecg_id, inserted, routes_added, ecg_added, nposts, tables0, prev_dirs,
                 rerun,
                 only_skip, interrupted>>

\* between two runs an ECG file is written (created, or rewritten with another
\* content)
WriteEcg(name, content) ==
  /\ ppc \in {"idle", "done", "killed"}
  /\ nposts + nwrites < MaxPostSteps
  /\ ecg_dir # None
  /\ name \in DOMAIN Val(ecg_dir) => Val(ecg_dir)[name] # content
  /\ nwrites' = nwrites + 1
  /\ ecg_dir' = Some([n \in DOMAIN Val(ecg_dir) \cup {name} |->
                        IF n = name THEN content ELSE Val(ecg_dir)[n]])
  /\ UNCHANGED <<routes_dir, PostTables, ppc, skip_existing, no_routes, no_ecg, existing,
                 names_left, route_rows, point_rows, route_id, record_rows, sample_rows,
                 ecg_id, inserted, routes_added, ecg_added, nposts, tables0, prev_dirs,
                 rerun,
                 only_skip, interrupted>>

\* main, lines 458-466: parse_args, connect, init_db (CREATE TABLE IF NOT EXISTS:
\* no row changes), build_source_aliases, create_views, the two counts
PostStart(skip, nr, ne) ==
  /\ ppc \in {"idle", "done", "killed"}
  /\ nposts + nwrites < MaxPostSteps
  /\ nposts' = nposts + 1
  /\ skip_existing' = skip
  /\ no_routes' = nr
  /\ no_ecg' = ne
  /\ routes_added' = 0
  /\ ecg_added' = 0
  /\ ppc' = "main_routes"
  /\ tables0' = PostTables
  /\ rerun' = (prev_dirs = Some(<<routes_dir, ecg_dir>>))
  /\ only_skip' = (only_skip /\ skip)
  /\ source_aliases' = build_source_aliases(db, source_aliases)
  /\ db' = create_views(db)
  /\ views' = views \cup ViewNames
  /\ UNCHANGED <<routes_dir, ecg_dir, PostTables, existing, names_left, route_rows,
                 point_rows, route_id, record_rows, sample_rows, ecg_id, inserted,
                 nwrites, prev_dirs, interrupted>>

\* main, lines 467-468, and import_workout_routes up to its file loop
BeginRoutes ==
  /\ ppc = "main_routes"
  /\ IF no_routes \/ ~isdir(routes_dir)
       THEN /\ ppc' = "main_ecg"
            /\ UNCHANGED <<existing, names_left, route_id>>
       ELSE /\ ppc' = "routes"
            /\ existing' = IF skip_existing THEN list_existing(workout_routes) ELSE {}
            /\ route_id' = _next_id(workout_routes)
            /\ names_left' = SortedListdir(routes_dir, SortedRouteNames)
  /\ UNCHANGED <<routes_dir, ecg_dir, PostTables, skip_existing, no_routes, no_ecg,
                 route_rows, point_rows, record_rows, sample_rows, ecg_id, inserted,
                 routes_added, ecg_added, nposts, nwrites, tables0, prev_dirs, rerun,
                 only_skip, interrupted>>

\* one pass of the file loop of import_workout_routes, the flush it may call included
RouteFile ==
  /\ ppc = "routes"
  /\ names_left # <<>>
  /\ names_left' = Tail(names_left)
  /\ LET name == Head(names_left)
         path == Join(ROUTES_DIR, name)
         points == ParsePoints(Val(routes_dir)[name])
         skipped == \/ ~EndsWith(name, ".gpx")
                    \/ skip_existing /\ path \in existing
                    \/ points = <<>>
         routes == Append(route_rows, RouteRow(route_id, path, points))
         children == point_rows \o PointRows(route_id, points)
     IN IF skipped
          THEN UNCHANGED <<PostTables, route_rows, point_rows, route_id, inserted>>
          ELSE /\ inserted' = inserted + 1
               /\ route_id' = route_id + 1
               /\ IF FlushDue(children)
                    THEN /\ workout_routes' = InsertOrIgnore(workout_routes, routes)
                         /\ workout_route_points' = workout_route_points \o children
                         /\ route_rows' = <<>>
                         /\ point_rows' = <<>>
                    ELSE /\ route_rows' = routes
                         /\ point_rows' = children
                         /\ UNCHANGED <<workout_routes, workout_route_points>>
               /\ UNCHANGED <<ecg_records, ecg_samples>>
  /\ UNCHANGED <<routes_dir, ecg_dir, ppc, skip_existing, no_routes, no_ecg, existing,
                 record_rows, sample_rows, ecg_id, routes_added, ecg_added, nposts,
                 nwrites, tables0, prev_dirs, rerun,
                 only_skip, interrupted>>

\* import_workout_routes after the loop: the last flush, the indexes, return inserted
EndRoutes ==
  /\ ppc = "routes"
  /\ names_left = <<>>
  /\ workout_routes' = InsertOrIgnore(workout_routes, route_rows)
  /\ workout_route_points' = workout_route_points \o point_rows
  /\ routes_added' = inserted
  /\ ppc' = "main_ecg"
  /\ existing' = {}
  /\ route_rows' = <<>>
  /\ point_rows' = <<>>
  /\ route_id' = 0
  /\ inserted' = 0
  /\ UNCHANGED <<routes_dir, ecg_dir, ecg_records, ecg_samples, skip_existing, no_routes,
                 no_ecg, names_left, record_rows, sample_rows, ecg_id, ecg_added, nposts,
                 nwrites, tables0, prev_dirs, rerun,
                 only_skip, interrupted>>

\* main, lines 469-470, and import_ecg up to its file loop
BeginEcg ==
  /\ ppc = "main_ecg"
  /\ IF no_ecg \/ ~isdir(ecg_dir)
       THEN /\ ppc' = "main_end"
            /\ UNCHANGED <<existing, names_left, ecg_id>>
       ELSE /\ ppc' = "ecg"
            /\ existing' = IF skip_existing THEN list_existing(ecg_records) ELSE {}
            /\ ecg_id' = _next_id(ecg_records)
            /\ names_left' = SortedListdir(ecg_dir, SortedEcgNames)
  /\ UNCHANGED <<routes_dir, ecg_dir, PostTables, skip_existing, no_routes, no_ecg,
                 route_rows, point_rows, route_id, record_rows, sample_rows, inserted,
                 routes_added, ecg_added, nposts, nwrites, tables0, prev_dirs, rerun,
                 only_skip, interrupted>>

\* one pass of the file loop of import_ecg, the flush it may call included
EcgFile ==
  /\ ppc = "ecg"
  /\ names_left # <<>>
  /\ names_left' = Tail(names_left)
  /\ LET name == Head(names_left)
         path == Join(ECG_DIR, name)
         parsed == parse_ecg_csv(Val(ecg_dir)[name])
         skipped == \/ ~EndsWith(name, ".csv")
                    \/ skip_existing /\ path \in existing
                    \/ NoSamples(parsed.samples)
         records == Append(record_rows, EcgRow(ecg_id, path, parsed.metadata))
         children == sample_rows \o SampleRows(ecg_id, parsed.samples)
     IN IF skipped
          THEN UNCHANGED <<PostTables, record_rows, sample_rows, ecg_id, inserted>>
          ELSE /\ inserted' = inserted + 1
               /\ ecg_id' = ecg_id + 1
               /\ IF FlushDue(children)
                    THEN /\ ecg_records' = InsertOrIgnore(ecg_records, records)
                         /\ ecg_samples' = ecg_samples \o children
                         /\ record_rows' = <<>>
                         /\ sample_rows' = <<>>
                    ELSE /\ record_rows' = records
                         /\ sample_rows' = children
                         /\ UNCHANGED <<ecg_records, ecg_samples>>
               /\ UNCHANGED <<workout_routes, workout_route_points>>
  /\ UNCHANGED <<routes_dir, ecg_dir, ppc, skip_existing, no_routes, no_ecg, existing,
                 route_rows, point_rows, route_id, routes_added, ecg_added, nposts,
                 nwrites, tables0, prev_dirs, rerun,
                 only_skip, interrupted>>

\* import_ecg after the loop: the last flush, the index, return inserted
EndEcg ==
  /\ ppc = "ecg"
  /\ names_left = <<>>
  /\ ecg_records' = InsertOrIgnore(ecg_records, record_rows)
  /\ ecg_samples' = ecg_samples \o sample_rows
  /\ ecg_added' = inserted
  /\ ppc' = "main_end"
  /\ existing' = {}
  /\ record_rows' = <<>>
  /\ sample_rows' = <<>>
  /\ ecg_id' = 0
  /\ inserted' = 0
  /\ UNCHANGED <<routes_dir, ecg_dir, workout_routes, workout_route_points,
                 skip_existing, no_routes, no_ecg, names_left, route_rows, point_rows,
                 route_id, routes_added, nposts, nwrites, tables0, prev_dirs, rerun,
                 only_skip, interrupted>>

\* main, lines 472-475: close, print the two counts, return 0
PostExit ==
  /\ ppc = "main_end"
  /\ ppc' = "done"
  /\ prev_dirs' = IF ~no_routes /\ ~no_ecg THEN Some(<<routes_dir, ecg_dir>>)
                  ELSE prev_dirs
  /\ UNCHANGED <<routes_dir, ecg_dir, PostTables, skip_existing, no_routes, no_ecg,
                 existing, names_left, route_rows, point_rows, route_id, record_rows,
                 sample_rows, ecg_id, inserted, routes_added, ecg_added, nposts, nwrites,
                 tables0, rerun,
                 only_skip, interrupted>>

\* the process is terminated from outside between two steps: its arguments and
\* locals are gone, and with them what the history kept about this run
PostCrash ==
  /\ ppc \in {"main_routes", "routes", "main_ecg", "ecg", "main_end"}
  /\ ppc' = "killed"
  /\ PostLocalsReset
  /\ skip_existing' = TRUE
  /\ no_routes' = FALSE
  /\ no_ecg' = FALSE
  /\ routes_added' = 0
  /\ ecg_added' = 0
  /\ tables0' = PostTables
  /\ rerun' = FALSE
  /\ interrupted' = TRUE
  /\ UNCHANGED <<routes_dir, ecg_dir, PostTables, nposts, nwrites, prev_dirs, only_skip>>

\* between two runs a row of an entity table is deleted with a tool of its own
\* (the store is an SQLite file; no script of the repository deletes rows)
DeleteRow(t, i) ==
  /\ ppc \in {"idle", "done", "killed"}
  /\ nposts + nwrites < MaxPostSteps
  /\ i \in DOMAIN db[t]
  /\ nwrites' = nwrites + 1
  /\ db' = [db EXCEPT ![t] = SubSeq(db[t], 1, i - 1) \o SubSeq(db[t], i + 1, Len(db[t]))]
  /\ UNCHANGED <<routes_dir, ecg_dir, PostTables, ppc, skip_existing, no_routes, no_ecg,
                 existing, names_left, route_rows, point_rows, route_id, record_rows,
                 sample_rows, ecg_id, inserted, routes_added, ecg_added, nposts, tables0,
                 prev_dirs, rerun, only_skip, interrupted>>
  /\ UNCHANGED <<source_aliases, views, records_norm_rows>>

\* between two runs the view is read: SELECT * FROM records_norm
ReadRecordsNorm ==
  /\ ppc \in {"done", "killed"}
  /\ "records_norm" \in views
  /\ records_norm_rows' = Some(records_norm(db, source_aliases))
  /\ UNCHANGED <<db, source_aliases, views, postVars>>

-----------------------------------------------------------------------------
(* health_postprocess.py: the rows of one ECG file *)

\* fields of the rows of the model
TDot3 == <<"3", ".">>
TBlank == <<" ">>
KLead == <<"Lead">>
KLeadPadded == <<" ", "Lead">>
KRate == <<"Sample Rate">>
VLeadI == <<"I">>
VLeadIPadded == <<"I", " ">>
VLeadII == <<"II">>
T300Hz == <<"3", "0", "0", " ", "Hz">>

\* rows of every shape: empty, one field (numeric or not), two fields and more
ShapedRows ==
  {<<>>, <<TEmpty>>, <<TBlank>>, <<TBad>>, <<TDot3>>,
   <<T30>>, <<TNeg60>>, <<TPadded>>, <<T1p5>>,
   <<KLead, VLeadI>>, <<KLead, VLeadII>>, <<KLeadPadded, VLeadIPadded>>,
   <<T30, T90>>, <<KLead, VLeadII, VLeadI>>, <<KRate, T300Hz>>}

\* raw values of the Sample Rate row: texts of digits, points, blanks and words
\* with at most one digit after a point (the resolution of Tenths)
RateTokens == {"3", "0", ".", " ", "Hz"}

RateTexts ==
  {t \in BoundedSeq(RateTokens, MaxRateLen) :
     \A i \in DOMAIN t :
       (t[i] = "." /\ i + 2 <= Len(t) /\ t[i + 1] \in Digits) => t[i + 2] \notin Digits}

CsvFiles ==
  BoundedSeq(ShapedRows, MaxCsvRows) \cup {<<<<KRate, t>>, <<T30>>>> : t \in RateTexts}

EcgInit ==
  /\ csv_rows \in CsvFiles
  /\ ecg_parsed = [metadata |-> <<>>, samples |-> <<>>]
  /\ ecg_row = None
  /\ ecg_sample_rows = <<>>
  /\ ephase = "file"

EcgIdle ==
  /\ csv_rows = <<>>
  /\ ecg_parsed = [metadata |-> <<>>, samples |-> <<>>]
  /\ ecg_row = None
  /\ ecg_sample_rows = <<>>
  /\ ephase = "off"

\* the body of the file loop of import_ecg for one file: parse, skip a file
\* without samples, build the row and the sample rows
ParseEcg ==
  /\ ephase = "file"
  /\ ephase' = "done"
  /\ LET parsed == parse_ecg_csv(csv_rows)
     IN /\ ecg_parsed' = parsed
        /\ IF NoSamples(parsed.samples)
             THEN UNCHANGED <<ecg_row, ecg_sample_rows>>
             ELSE /\ ecg_row' = Some(EcgRow(1, Join(ECG_DIR, SortedEcgNames[1]),
                                            parsed.metadata))
                  /\ ecg_sample_rows' = SampleRows(1, parsed.samples)
  /\ UNCHANGED csv_rows

-----------------------------------------------------------------------------
(* health_inventory.py *)

\* a Counter: a function from the keys counted so far to their counts
Inc(counter, key) ==
  [k \in DOMAIN counter \cup {key} |->
     IF k = key THEN (IF key \in DOMAIN counter THEN counter[key] + 1 ELSE 1)
     ELSE counter[k]]

Count(counter, key) == IF key \in DOMAIN counter THEN counter[key] ELSE 0

\* attrs.get(key, default)
get_default(attrs, key, default) ==
  IF key \in DOMAIN attrs THEN attrs[key] ELSE default

TUnknown == <<"Unknown">>
TNone == <<"None">>

\* the counters of main, all empty
NoCounts ==
  [totals |-> <<>>, record_types |-> <<>>, record_sources |-> <<>>,
   record_devices |-> <<>>, record_units_by_type |-> <<>>,
   record_source_versions |-> <<>>, workout_types |-> <<>>,
   workout_sources |-> <<>>, workout_devices |-> <<>>, correlation_types |-> <<>>,
   activity_summary_sources |-> <<>>, clinical_record_types |-> <<>>,
   audiogram_sources |-> <<>>, vision_sources |-> <<>>]

\* the branch of the loop for one element
Tally(c, e) ==
  LET attrs == e.attrib
      total == [c EXCEPT !.totals = Inc(@, e.tag)]
      source == get_default(attrs, "sourceName", TUnknown)
  IN CASE e.tag = "Record" ->
            LET rtype == get_default(attrs, "type", TUnknown)
                unit == IF get(attrs, "unit") \in {None, Some(TEmpty)}
                          THEN TNone ELSE attrs["unit"]
                device == get(attrs, "device")
                version == get(attrs, "sourceVersion")
            IN [total EXCEPT
                  !.record_types = Inc(@, rtype),
                  !.record_units_by_type = Inc(@, <<rtype, unit>>),
                  !.record_sources = Inc(@, source),
                  !.record_devices =
                     IF device \in {None, Some(TEmpty)} THEN @ ELSE Inc(@, Val(device)),
                  !.record_source_versions =
                     IF version \in {None, Some(TEmpty)} THEN @
                     ELSE Inc(@, <<source, Val(version)>>)]
       [] e.tag = "Workout" ->
            LET device == get(attrs, "device")
            IN [total EXCEPT
                  !.workout_types =
                     Inc(@, get_default(attrs, "workoutActivityType", TUnknown)),
                  !.workout_sources = Inc(@, source),
                  !.workout_devices =
                     IF device \in {None, Some(TEmpty)} THEN @ ELSE Inc(@, Val(device))]
       [] e.tag = "Correlation" ->
            [total EXCEPT !.correlation_types = Inc(@, get_default(attrs, "type", TUnknown))]
       [] e.tag = "ActivitySummary" ->
            [total EXCEPT !.activity_summary_sources = Inc(@, source)]
       [] e.tag = "ClinicalRecord" ->
            [total EXCEPT
               !.clinical_record_types = Inc(@, get_default(attrs, "type", TUnknown))]
       [] e.tag = "Audiogram" -> [total EXCEPT !.audiogram_sources = Inc(@, source)]
       [] e.tag = "VisionPrescription" -> [total EXCEPT !.vision_sources = Inc(@, source)]
       [] OTHER -> c

\* the test after each element: args.max_elements and processed >= args.max_elements
CapExceeded(cap, n) == cap # 0 /\ n > cap

CapReached(cap, n) == cap # 0 /\ n >= cap

\* the exports of the model: at least one element; a Record, a Workout and a
\* Correlation come with all the attributes that are counted or with none
Described ==
  [key \in {"type", "unit", "sourceName", "sourceVersion", "device",
            "workoutActivityType"} |-> TWord]

ExportElems ==
  [tag : Tags, attrib : {<<>>}]
    \cup [tag : {"Record", "Workout", "Correlation"}, attrib : {Described}]

Exports == BoundedSeq(ExportElems, MaxStream) \ {<<>>}

\* --max-elements: any integer, 0 (the default) for no limit
Caps == (-1)..MaxCap

InventoryInit ==
  /\ export \in Exports
  /\ max_elements = 0
  /\ processed = 0
  /\ counters = NoCounts
  /\ inventory = None
  /\ ipc = "idle"
  /\ inventory_status = NoExit

InventoryIdle ==
  /\ export = <<>>
  /\ max_elements = 0
  /\ processed = 0
  /\ counters = NoCounts
  /\ inventory = None
  /\ ipc = "off"
  /\ inventory_status = NoExit

\* main up to the loop: parse_args, the empty counters, and the open that
\* iterparse does inside the try
InventoryStart(cap, outcome) ==
  /\ ipc = "idle"
  /\ max_elements' = cap
  /\ processed' = 0
  /\ counters' = NoCounts
  /\ ipc' = IF outcome = "ok" THEN "loop" ELSE "exited"
  /\ inventory_status' = IF outcome = "ok" THEN NoExit ELSE ExitStatusOf(outcome)
  /\ UNCHANGED <<export, inventory>>

\* one "end" event: the counters of the element's branch, elem.clear(), the
\* count of processed elements and the test of the cap
InventoryElement ==
  /\ ipc = "loop"
  /\ processed < Len(export)
  /\ counters' = Tally(counters, export[processed + 1])
  /\ processed' = processed + 1
  /\ ipc' = IF CapReached(max_elements, processed + 1) THEN "summary" ELSE "loop"
  /\ UNCHANGED <<export, max_elements, inventory, inventory_status>>

\* the stream is exhausted
InventoryEndOfStream ==
  /\ ipc = "loop"
  /\ processed = Len(export)
  /\ ipc' = "summary"
  /\ UNCHANGED <<export, max_elements, processed, counters, inventory, inventory_status>>

\* after the loop: the counters are written out as JSON (with the export path
\* and the time of the run, which the model leaves out), return 0
InventoryWrite ==
  /\ ipc = "summary"
  /\ inventory' = Some(json_dumps(counters))
  /\ ipc' = "exited"
  /\ inventory_status' = 0
  /\ UNCHANGED <<export, max_elements, processed, counters>>

-----------------------------------------------------------------------------
(* Specifications *)

\* what the steps of one program leave alone
notIngest == <<routeVars, postVars, aliasVars, normVars, elemVars, ecgVars, inventoryVars>>
notRoute == <<ingestVars, postVars, aliasVars, normVars, elemVars, ecgVars, inventoryVars>>
notPost == <<ingestVars, routeVars, aliasVars, normVars, elemVars, ecgVars, inventoryVars>>
notNorm == <<ingestVars, routeVars, postVars, aliasVars, elemVars, ecgVars, inventoryVars>>
notElem == <<ingestVars, routeVars, postVars, aliasVars, normVars, ecgVars, inventoryVars>>
notEcg == <<ingestVars, routeVars, postVars, aliasVars, normVars, elemVars,
           inventoryVars>>
notInventory == <<ingestVars, routeVars, postVars, aliasVars, normVars, elemVars,
                 ecgVars>>

Init == IngestInit /\ RouteIdle /\ PostIdle /\ AliasInit /\ NormIdle /\ ElemIdle /\ EcgIdle /\ InventoryIdle

Next ==
  \/ (\E bs \in BatchSizes, wm \in BOOLEAN, o \in OpenOutcomes : StartRun(bs, wm, o))
       /\ UNCHANGED notIngest
  \/ (\E tag \in Tags : StartElement(tag)) /\ UNCHANGED notIngest
  \/ (\E k \in MetaKeys, v \in MetaValues : EndElement(<<k, v>>)) /\ UNCHANGED notIngest
  \/ EndOfStream /\ UNCHANGED notIngest
  \/ Crash /\ UNCHANGED notIngest

Spec == Init /\ [][Next]_vars

InitRoute == IngestInit /\ RouteInit /\ PostIdle /\ AliasInit /\ NormIdle /\ ElemIdle /\ EcgIdle /\ InventoryIdle

NextRoute == ComputeRoute /\ UNCHANGED notRoute

SpecRoute == InitRoute /\ [][NextRoute]_vars

\* main of health_postprocess.py up to the first stage: it reads the entity
\* tables, writes source_aliases and creates the views
Start(skip, nr, ne) ==
  PostStart(skip, nr, ne) /\ UNCHANGED <<ingestLocals, routeVars, records_norm_rows, normVars, elemVars, ecgVars, inventoryVars>>

InitPost == IngestInit /\ RouteIdle /\ PostInit /\ AliasInit /\ NormIdle /\ ElemIdle /\ EcgIdle /\ InventoryIdle

NextPost ==
  \/ (\E n \in Range(SortedRouteNames) : \E c \in RouteFilesOf(n) : WriteRoute(n, c))
       /\ UNCHANGED notPost
  \/ (\E n \in Range(SortedEcgNames), c \in CsvContents : WriteEcg(n, c))
       /\ UNCHANGED notPost
  \/ (\E skip \in BOOLEAN, nr \in BOOLEAN, ne \in BOOLEAN : Start(skip, nr, ne))
  \/ BeginRoutes /\ UNCHANGED notPost
  \/ RouteFile /\ UNCHANGED notPost
  \/ EndRoutes /\ UNCHANGED notPost
  \/ BeginEcg /\ UNCHANGED notPost
  \/ EcgFile /\ UNCHANGED notPost
  \/ EndEcg /\ UNCHANGED notPost
  \/ PostExit /\ UNCHANGED notPost
  \/ PostCrash /\ UNCHANGED notPost

SpecPost == InitPost /\ [][NextPost]_vars

\* post-process runs on a store that an ingest run has filled, with neither
\* auxiliary directory present
InitAlias ==
  /\ IngestedInit /\ RouteIdle /\ PostInit /\ AliasInit /\ NormIdle /\ ElemIdle /\ EcgIdle /\ InventoryIdle
  /\ routes_dir = None
  /\ ecg_dir = None

NextAlias ==
  \/ (\E t \in {"records", "workouts"}, i \in 1..(MaxStoreRows + 1) : DeleteRow(t, i))
       /\ UNCHANGED <<ingestLocals, routeVars, normVars, elemVars, ecgVars, inventoryVars>>
  \/ ReadRecordsNorm /\ UNCHANGED <<ingestLocals, routeVars, normVars, elemVars, ecgVars, inventoryVars>>
  \/ Start(TRUE, FALSE, FALSE)
  \/ BeginRoutes /\ UNCHANGED notPost
  \/ BeginEcg /\ UNCHANGED notPost
  \/ PostExit /\ UNCHANGED notPost
  \/ PostCrash /\ UNCHANGED notPost

SpecAlias == InitAlias /\ [][NextAlias]_vars

InitNorm == IngestInit /\ RouteIdle /\ PostIdle /\ AliasInit /\ NormInit /\ ElemIdle /\ EcgIdle /\ InventoryIdle

NextNorm ==
  \/ Normalize /\ UNCHANGED notNorm
  \/ NormalizeAgain /\ UNCHANGED notNorm

SpecNorm == InitNorm /\ [][NextNorm]_vars

InitElem == IngestInit /\ RouteIdle /\ PostIdle /\ AliasInit /\ NormIdle /\ ElemInit /\ EcgIdle /\ InventoryIdle

NextElem == AppendRow /\ UNCHANGED notElem

SpecElem == InitElem /\ [][NextElem]_vars

InitEcg == IngestInit /\ RouteIdle /\ PostIdle /\ AliasInit /\ NormIdle /\ ElemIdle /\ EcgInit /\ InventoryIdle

NextEcg == ParseEcg /\ UNCHANGED notEcg

SpecEcg == InitEcg /\ [][NextEcg]_vars

InitInventory ==
  IngestInit /\ RouteIdle /\ PostIdle /\ AliasInit /\ NormIdle /\ ElemIdle /\ EcgIdle
    /\ InventoryInit

NextInventory ==
  \/ (\E cap \in Caps, o \in {"ok", "FileNotFoundError"} : InventoryStart(cap, o))
       /\ UNCHANGED notInventory
  \/ InventoryElement /\ UNCHANGED notInventory
  \/ InventoryEndOfStream /\ UNCHANGED notInventory
  \/ InventoryWrite /\ UNCHANGED notInventory

SpecInventory == InitInventory /\ [][NextInventory]_vars

-----------------------------------------------------------------------------
(* Properties of the ingest runs *)

MaxId(rows) == IF rows = <<>> THEN 0 ELSE CHOOSE m \in Ids(rows) : \A j \in Ids(rows) : j <= m

IsPrefix(s, t) == Len(s) <= Len(t) /\ s = SubSeq(t, 1, Len(s))

OpenFailed == error \in OpenOutcomes \ {"ok"}

\* C3 (as claimed): the ids an ingest run writes continue from max(existing id)+1
\* of their table (1 on a fresh store), and a run whose export opened completes.
C3_IdContinuation ==
  /\ \A t \in EntityTables : \A i \in DOMAIN emitted[t] :
        emitted[t][i].id = MaxId(base[t]) + i
  /\ (pc = "exited" /\ ~OpenFailed) => exit_status = 0

\* C4: a completed ingest run into a fresh store leaves, for every kind, exactly
\* one row per element of that kind, with ids 1..N in stream order.
C4_Completeness ==
  (pc = "exited" /\ exit_status = 0 /\ base = EmptyTables) =>
    \A k \in Kinds :
      db[TableOf(k)] = [i \in 1..seen[k] |-> EntityRow(i, i)]

C4_Witness ==
  /\ pc = "exited" /\ exit_status = 0 /\ base = EmptyTables
  /\ batch_size = 1
  /\ seen["Record"] = 2 /\ seen["Workout"] = 1
  /\ Len(db["records"]) = 2 /\ Len(db["workouts"]) = 1

C5_Accounted ==
  \A t \in Tables :
    base[t] \o emitted[t] = db[t] \o (IF pc = "parse" THEN rows_by_table[t] ELSE lost[t])

C5_Kept == \A t \in Tables : IsPrefix(db[t], db'[t])

\* C5: at every point of a run, interrupted or not, the rows the run produced are
\* the committed ones followed by the buffered (or, once interrupted, lost) ones,
\* and no step removes or rewrites a committed row.
C5_CrashDurability == [](C5_Accounted) /\ [][C5_Kept]_vars

C5_Witness ==
  /\ pc = "killed"
  /\ db["records"] # base["records"]
  /\ lost["workouts"] # <<>>

\* C6 (as claimed): after each processed element no table buffer holds batch_size
\* or more rows.
C6_BatchThresholdAnyTable ==
  (pc = "parse" /\ batch_size >= 1) =>
    \A t \in Tables : Len(rows_by_table[t]) < batch_size

\* C7 (as claimed): whenever the export cannot be opened the run ends with exit
\* status 2 and the store is as it was.
C7_OpenFailureExits2 ==
  (pc = "exited" /\ OpenFailed) => (exit_status = 2 /\ db = base)

\* C7 (amended): a missing export ends the run with exit status 2, any other
\* failure to open it with the status of an uncaught exception, 1; in both cases
\* no row is added and the stored rows are unchanged.
C7_MissingExport ==
  (pc = "exited" /\ OpenFailed) =>
    /\ exit_status = (IF error = "FileNotFoundError" THEN 2 ELSE 1)
    /\ db = base
    /\ emitted = EmptyTables

C7_Witness ==
  /\ pc = "exited" /\ error = "FileNotFoundError" /\ exit_status = 2
  /\ db["records"] # <<>>

-----------------------------------------------------------------------------
(* Properties of the route of one track file *)

RECURSIVE Sum(_)
Sum(nums) == IF nums = <<>> THEN 0 ELSE nums[1] + Sum(Tail(nums))

\* the sum of f over the pairs (pts[i], pts[i+1])
SumOverPairs(pts, f(_, _)) ==
  Sum([i \in 1..(Len(pts) - 1) |-> f(pts[i], pts[i + 1])])

GreatCircle(p, q) == haversine_km(Val(q.lat), Val(q.lon), Val(p.lat), Val(p.lon))

GreatCircleIfBoth(p, q) == IF HasBoth(p) /\ HasBoth(q) THEN GreatCircle(p, q) ELSE 0

Geolocated(points) == SelectSeq(points, HasBoth)

Stored == rphase = "done" /\ route # None

\* C8 (as claimed): the stored distance is the sum of the great-circle distance
\* over the pairs of points that are consecutive in the file and both have lat and
\* lon; nothing is added across a point that lacks a coordinate.
C8_FileAdjacentPairs ==
  Stored =>
    Val(route).distance_km = SumOverPairs(ParsePoints(trkpts), GreatCircleIfBoth)

\* C8 (amended): the stored distance is the sum of the great-circle distance over
\* the consecutive pairs of the sequence of points that have both lat and lon; a
\* point that lacks a coordinate is left out of that sequence, so the points
\* before and after it form a pair.
C8_GeolocatedPairs ==
  Stored =>
    Val(route).distance_km = SumOverPairs(Geolocated(ParsePoints(trkpts)), GreatCircle)

C8_Witness ==
  /\ Stored
  /\ Len(trkpts) = 3
  /\ LET points == ParsePoints(trkpts)
     IN /\ HasBoth(points[1]) /\ ~HasBoth(points[2]) /\ HasBoth(points[3])
        /\ Val(route).distance_km = GreatCircle(points[1], points[3])
        /\ Val(route).distance_km > 0

\* C9: the stored distance is 0 when at most one point has both coordinates, and
\* the file with one more trailing point that has both coordinates gets a
\* distance that is not smaller.
C9_MonotoneDistance ==
  Stored =>
    LET points == ParsePoints(trkpts)
    IN /\ Len(Geolocated(points)) <= 1 => Val(route).distance_km = 0
       /\ \A raw \in RawPoints :
            HasBoth(ParsePoints(<<raw>>)[1]) =>
              RouteRow(1, "a.gpx", ParsePoints(Append(trkpts, raw))).distance_km
                >= Val(route).distance_km

C9_Witness ==
  /\ Stored
  /\ Len(trkpts) = 3
  /\ Len(Geolocated(ParsePoints(trkpts))) = 2
  /\ Val(route).distance_km > 0
  /\ \E raw \in RawPoints :
       /\ HasBoth(ParsePoints(<<raw>>)[1])
       /\ RouteRow(1, "a.gpx", ParsePoints(Append(trkpts, raw))).distance_km
            > Val(route).distance_km

AxisOk(values, lo, hi) ==
  IF values = {} THEN lo = None /\ hi = None
  ELSE /\ lo # None /\ hi # None
       /\ Val(lo) \in values /\ Val(hi) \in values
       /\ Val(lo) <= Val(hi)
       /\ \A v \in values : Val(lo) <= v /\ v <= Val(hi)

\* C10: on each axis the bounds are the least and the greatest non-null coordinate
\* of the route on that axis, whatever the other coordinate of the point is; an
\* axis without a non-null coordinate has null bounds.
C10_BoundingBox ==
  Stored =>
    LET points == ParsePoints(trkpts)
        lats == {Val(points[i].lat) : i \in {j \in DOMAIN points : points[j].lat # None}}
        lons == {Val(points[i].lon) : i \in {j \in DOMAIN points : points[j].lon # None}}
    IN /\ AxisOk(lats, Val(route).min_lat, Val(route).max_lat)
       /\ AxisOk(lons, Val(route).min_lon, Val(route).max_lon)

C10_Witness ==
  /\ Stored
  /\ Val(route).min_lon # None
  /\ LET points == ParsePoints(trkpts)
     IN \E i \in DOMAIN points :
          /\ HasLat(points[i]) /\ ~HasLon(points[i])
          /\ Val(route).min_lat = points[i].lat
          /\ \A j \in DOMAIN points \ {i} :
               HasBoth(points[j]) /\ Val(points[j].lat) > Val(points[i].lat)

-----------------------------------------------------------------------------
(* Properties of the post-process runs *)

PostRunning == {"main_routes", "routes", "main_ecg", "ecg", "main_end"}

\* C1: a run with skip-existing that starts on directories unchanged since a
\* completed run over both of them adds no row to workout_routes,
\* workout_route_points, ecg_records or ecg_samples, and reports 0 routes and
\* 0 ECGs added.
C1_IdempotentRerun ==
  (rerun /\ skip_existing /\ ppc \in PostRunning \cup {"done", "killed"}) =>
    /\ PostTables = tables0
    /\ ppc = "done" => (routes_added = 0 /\ ecg_added = 0)

\* the second run is over: both directories were scanned again, and both hold
\* files that the first run stored
C1_Witness ==
  /\ ppc = "done" /\ rerun /\ skip_existing /\ ~no_routes /\ ~no_ecg
  /\ workout_routes # <<>>
  /\ ecg_records # <<>>

UniquePaths(table) ==
  \A i, j \in DOMAIN table : table[i].file_path = table[j].file_path => i = j

\* C2: in either skip-existing mode workout_routes and ecg_records hold at most
\* one row per file_path, and no step changes or removes a row that is stored:
\* the row of a path keeps the id and the columns of its first ingestion.
C2_FirstIngestionWins ==
  /\ [](UniquePaths(workout_routes) /\ UniquePaths(ecg_records))
  /\ [][/\ IsPrefix(workout_routes, workout_routes')
        /\ IsPrefix(ecg_records, ecg_records')]_vars

\* a run without skip-existing has ingested a track file again that was
\* rewritten since its path was stored: the stored row is still the old one
C2_Witness ==
  /\ ppc = "done" /\ ~skip_existing /\ routes_added > 0
  /\ workout_routes = tables0[1]
  /\ \E i \in DOMAIN workout_routes :
       LET row == workout_routes[i]
           name == row.file_path.name
       IN /\ name \in DOMAIN Val(routes_dir)
          /\ RouteRow(row.id, row.file_path, ParsePoints(Val(routes_dir)[name])) # row

-----------------------------------------------------------------------------
(* Properties of the file loops *)

\* one pass of a file loop: the file at the head of names_left is dealt with
RouteStep ==
  ppc = "routes" /\ ppc' = "routes" /\ names_left # <<>> /\ names_left' = Tail(names_left)

EcgStep ==
  ppc = "ecg" /\ ppc' = "ecg" /\ names_left # <<>> /\ names_left' = Tail(names_left)

RouteLoopState == <<workout_routes, workout_route_points, route_rows, point_rows,
                    route_id, inserted>>

EcgLoopState == <<ecg_records, ecg_samples, record_rows, sample_rows, ecg_id, inserted>>

PointsOf(name) == ParsePoints(Val(routes_dir)[name])

SamplesOf(name) == parse_ecg_csv(Val(ecg_dir)[name]).samples

\* C11: a pass over a track file with zero points, or over an ECG file with
\* zero samples, leaves the tables, the buffers, the count and the id counter
\* as they were; so at every moment of a loop the id counter is the id the run
\* started from plus the number of files counted.
C11_EmptyFileSkipped ==
  /\ [][(RouteStep /\ PointsOf(Head(names_left)) = <<>>) => UNCHANGED RouteLoopState]_vars
  /\ [][(EcgStep /\ SamplesOf(Head(names_left)) = <<>>) => UNCHANGED EcgLoopState]_vars
  /\ [](ppc = "routes" => route_id = MaxId(tables0[1]) + 1 + inserted)
  /\ [](ppc = "ecg" => ecg_id = MaxId(tables0[3]) + 1 + inserted)

\* the first file of the directory has no point, the second was ingested in
\* the same run with the first free id
C11_Witness ==
  /\ ppc = "main_end" /\ routes_added = 1 /\ routes_dir # None
  /\ SortedListdir(routes_dir, SortedRouteNames) = SubSeq(SortedRouteNames, 1, 2)
  /\ PointsOf(SortedRouteNames[1]) = <<>>
  /\ workout_routes = Append(tables0[1],
       RouteRow(MaxId(tables0[1]) + 1, Join(ROUTES_DIR, SortedRouteNames[2]),
                PointsOf(SortedRouteNames[2])))

\* every .gpx file of the directory that has a point has its path in workout_routes
RoutesAllIngested ==
  \A name \in DOMAIN Val(routes_dir) :
    (EndsWith(name, ".gpx") /\ PointsOf(name) # <<>>) =>
      \E i \in DOMAIN workout_routes : workout_routes[i].file_path = Join(ROUTES_DIR, name)

\* every .csv file of the directory that has a sample has its path in ecg_records
EcgAllIngested ==
  \A name \in DOMAIN Val(ecg_dir) :
    (EndsWith(name, ".csv") /\ SamplesOf(name) # <<>>) =>
      \E i \in DOMAIN ecg_records : ecg_records[i].file_path = Join(ECG_DIR, name)

\* C12: when both stages of a run are over, a stage whose directory does not
\* exist has reported 0 and has left its tables as the run found them, and the
\* other stage has ingested the files of its directory.
C12_AbsentDirectory ==
  ppc = "main_end" =>
    /\ (~no_routes /\ routes_dir = None) =>
         /\ routes_added = 0
         /\ workout_routes = tables0[1] /\ workout_route_points = tables0[2]
         /\ (~no_ecg /\ ecg_dir # None) => EcgAllIngested
    /\ (~no_ecg /\ ecg_dir = None) =>
         /\ ecg_added = 0
         /\ ecg_records = tables0[3] /\ ecg_samples = tables0[4]
         /\ (~no_routes /\ routes_dir # None) => RoutesAllIngested

\* no routes directory, and the ECG stage of the same run has ingested a file
C12_Witness ==
  /\ ppc = "main_end" /\ ~no_routes /\ ~no_ecg
  /\ routes_dir = None
  /\ ecg_added > 0

\* C13: with skip-existing, a pass over a .gpx (.csv) file whose path is in the
\* table changes nothing, whatever the file holds now; a pass over one whose
\* path is not in the table and that has a point (sample) counts it and
\* produces its row under the next id.
C13_PathEqualityFilter ==
  /\ [][(RouteStep /\ skip_existing /\ EndsWith(Head(names_left), ".gpx")) =>
          LET name == Head(names_left)
              path == Join(ROUTES_DIR, name)
          IN IF \E i \in DOMAIN workout_routes : workout_routes[i].file_path = path
               THEN UNCHANGED RouteLoopState
               ELSE PointsOf(name) # <<>> =>
                      /\ inserted' = inserted + 1
                      /\ RouteRow(route_id, path, PointsOf(name))
                           \in Range(route_rows') \cup Range(workout_routes')]_vars
  /\ [][(EcgStep /\ skip_existing /\ EndsWith(Head(names_left), ".csv")) =>
          LET name == Head(names_left)
              path == Join(ECG_DIR, name)
              parsed == parse_ecg_csv(Val(ecg_dir)[name])
          IN IF \E i \in DOMAIN ecg_records : ecg_records[i].file_path = path
               THEN UNCHANGED EcgLoopState
               ELSE parsed.samples # <<>> =>
                      /\ inserted' = inserted + 1
                      /\ EcgRow(ecg_id, path, parsed.metadata)
                           \in Range(record_rows') \cup Range(ecg_records')]_vars

\* a run with skip-existing has passed over a track file that was rewritten
\* after its path was stored: nothing was added, the row is the old one
C13_Witness ==
  /\ ppc = "main_end" /\ skip_existing /\ ~no_routes /\ routes_added = 0
  /\ routes_dir # None
  /\ \E i \in DOMAIN workout_routes :
       LET row == workout_routes[i]
           name == row.file_path.name
       IN /\ name \in DOMAIN Val(routes_dir)
          /\ PointsOf(name) # <<>>
          /\ RouteRow(row.id, row.file_path, PointsOf(name)) # row

-----------------------------------------------------------------------------
(* Identifiers, parents and children *)

Dense(table) == Ids(table) = 1..Len(table)

ChildrenOf(children, key, id) ==
  LET Under(child) == child[key] = id IN SelectSeq(children, Under)

\* every child has a parent, and the children of a parent are numbered
\* 0, 1, ... in insert order, as many as count(parent) says
Integrity(parents, children, key, index, count(_)) ==
  /\ \A i \in DOMAIN children : children[i][key] \in Ids(parents)
  /\ \A i \in DOMAIN parents :
       LET under == ChildrenOf(children, key, parents[i].id)
       IN /\ Len(under) = count(parents[i])
          /\ \A k \in DOMAIN under : under[k][index] = k - 1

PointCount(route_row) == route_row.point_count

RoutesIntegrity ==
  Integrity(workout_routes, workout_route_points, "route_id", "point_index", PointCount)

\* the samples of an ECG row have no stored count: at least one, numbered from 0
SamplesIntegrity ==
  /\ \A i \in DOMAIN ecg_samples : ecg_samples[i].ecg_id \in Ids(ecg_records)
  /\ \A i \in DOMAIN ecg_records :
       LET under == ChildrenOf(ecg_samples, "ecg_id", ecg_records[i].id)
       IN /\ under # <<>>
          /\ \A k \in DOMAIN under : under[k].sample_index = k - 1

-----------------------------------------------------------------------------
(* Properties of source names, the alias table and the views *)

Apostrophes == {"'", "LSQUO", "RSQUO"}

\* the names one edit away from text: another apostrophe glyph at a place, another
\* kind of whitespace at a place, or one more whitespace character in a run
Edits(text) ==
  LET at(S) == {i \in DOMAIN text : text[i] \in S}
  IN {[text EXCEPT ![i] = g] : i \in at(Apostrophes), g \in Apostrophes}
       \cup {[text EXCEPT ![i] = w] : i \in at(Whitespace), w \in Whitespace}
       \cup {SubSeq(text, 1, i) \o <<w>> \o SubSeq(text, i + 1, Len(text)) :
               i \in at(Whitespace), w \in Whitespace}

\* C14: normalizing the result of normalize_source_name gives the result again;
\* and a name that differs from the argument in one apostrophe glyph, in the
\* kind of one whitespace character or by one more whitespace character in a
\* run has the same result (so, step by step, has every name that differs in
\* these only).
C14_NormalizeIdempotent ==
  /\ nphase = "twice" => renormalized = normalized
  /\ (nphase \in {"once", "twice"} /\ value_in # None) =>
       \A t \in Edits(Val(value_in)) : normalize_source_name(Some(t)) = normalized

\* a name with a non-breaking space and a curly apostrophe has been normalized
\* twice
C14_Witness ==
  /\ nphase = "twice"
  /\ value_in = Some(<<"A", "NBSP", "RSQUO">>)
  /\ normalized = Some(<<"A", " ", "'">>)

\* C15: once a run has rebuilt it, source_aliases holds one row for each source
\* name that the entity tables hold, with its normalized form, and no other row.
C15_AliasesReflectStore ==
  ppc \in PostRunning =>
    source_aliases = {[raw_source |-> src,
                       normalized_source |-> normalize_source_name(Some(src))] :
                        src \in Sources(db)}

\* C16: every row that a read of records_norm returns has value_num equal to
\* the number its value text denotes, and null when the text denotes none.
C16_ViewNumericCoercion ==
  records_norm_rows # None =>
    \A i \in DOMAIN Val(records_norm_rows) :
      LET row == Val(records_norm_rows)[i]
      IN row.value_num = (IF row.value = None THEN None ELSE float(Val(row.value)))

-----------------------------------------------------------------------------
(* Properties of the tuple built from one element *)

Built == bphase = "done" /\ elem.tag \in Kinds

Descriptive == {"type", "unit", "sourceName", "sourceVersion", "device",
                "workoutActivityType"}

Unknown == Some(<<"Unknown">>)

Absent(key) == key \notin DOMAIN elem.attrib

\* C21 (as claimed): when the element lacks an attribute, its descriptive column
\* holds the text "Unknown" and its numeric column null; the id is the counter's.
C21_UnknownDefault ==
  Built =>
    /\ Len(appended) = 1
    /\ appended[1].id = kind_id
    /\ \A i \in DOMAIN Columns(elem.tag) :
         LET col == Columns(elem.tag)[i]
         IN Absent(col.key) =>
              /\ col.numeric => appended[1].cells[i] = None
              /\ col.key \in Descriptive => appended[1].cells[i] = Unknown

\* C21 (amended): when the element lacks an attribute, the column it feeds holds
\* null, whether descriptive or numeric, and never the text "Unknown"; the id is
\* the value of the kind's counter, whatever attributes the element carries.
C21_AbsentIsNull ==
  Built =>
    /\ Len(appended) = 1
    /\ appended[1].id = kind_id
    /\ \A i \in DOMAIN Columns(elem.tag) :
         LET col == Columns(elem.tag)[i]
         IN /\ Absent(col.key) => appended[1].cells[i] = None
            /\ ~col.numeric => appended[1].cells[i] # Unknown

C21_Witness ==
  /\ Built /\ elem.tag = "Record"
  /\ Absent("sourceName") /\ ~Absent("id")
  /\ appended[1].cells[4] = None
  /\ appended[1].id = 2

\* the numbers that the numeric texts of the model stand for, in tenths, and the
\* texts that are no number
NumberOf(text) ==
  CASE text = T30 -> 300
    [] text = TPadded -> 300
    [] text = TNeg60 -> -600
    [] text = T1p5 -> 15

NoNumber == {TEmpty, TBad}

\* C22: every Workout and ActivitySummary element yields exactly one tuple,
\* whatever the texts of its numeric attributes; each numeric column holds the
\* number when the text is one and null when it is absent, empty or unparsable.
C22_PermissiveCoercion ==
  (bphase = "done" /\ elem.tag \in {"Workout", "ActivitySummary"}) =>
    /\ Len(appended) = 1
    /\ \A i \in DOMAIN Columns(elem.tag) :
         LET col == Columns(elem.tag)[i]
             cell == appended[1].cells[i]
         IN col.numeric =>
              IF Absent(col.key) \/ elem.attrib[col.key] \in NoNumber
                THEN cell = None
                ELSE cell = Some(NumberOf(elem.attrib[col.key]))

C22_Witness ==
  /\ bphase = "done" /\ elem.tag = "Workout"
  /\ ~Absent("duration") /\ elem.attrib["duration"] = TBad
  /\ ~Absent("totalDistance") /\ elem.attrib["totalDistance"] = TEmpty
  /\ Len(appended) = 1
  /\ appended[1].cells[2] = None /\ appended[1].cells[6] = None
  /\ appended[1].cells[4] = Some(300)

-----------------------------------------------------------------------------
(* Properties of the metadata capture, the indexes and the commits *)

Closing == IF stack = <<>> THEN "none" ELSE stack[Len(stack)]

RecordOpen == \E i \in DOMAIN stack : stack[i] = "Record"

NewRows(t) == SubSeq(emitted'[t], Len(emitted[t]) + 1, Len(emitted'[t]))

CaptureOff ==
  (pc = "parse" /\ ~with_metadata) =>
    /\ record_metadata = <<>>
    /\ rows_by_table["record_metadata"] = <<>>
    /\ emitted["record_metadata"] = <<>>

Buffered ==
  (pc = "parse" /\ pc' = "parse" /\ record_metadata' # record_metadata
     /\ record_metadata' # <<>>) =>
    /\ Closing = "MetadataEntry" /\ RecordOpen /\ with_metadata
    /\ Len(record_metadata') = Len(record_metadata) + 1
    /\ IsPrefix(record_metadata, record_metadata')

RowsOnlyAtRecordEnd ==
  (pc = "parse" /\ NewRows("record_metadata") # <<>>) =>
    /\ Closing = "Record" /\ with_metadata
    /\ Len(NewRows("records")) = 1
    /\ NewRows("record_metadata") =
         [i \in DOMAIN record_metadata |->
            [record_id |-> NewRows("records")[1].id,
             key |-> record_metadata[i][1], value |-> record_metadata[i][2]]]

OutsideRecord ==
  (pc = "parse" /\ pc' = "parse" /\ Closing = "MetadataEntry" /\ ~RecordOpen) =>
    /\ record_metadata' = record_metadata
    /\ NewRows("record_metadata") = <<>>

\* C23: a metadata entry is buffered only when it closes inside an open Record
\* with capture enabled, and the buffer becomes record_metadata rows, with the id
\* of that Record, when the Record closes; an entry outside a Record leaves the
\* buffer and the table alone; with capture disabled the buffer is empty in every
\* state of the run and no record_metadata row is produced.
C23_MetadataCapture ==
  /\ [](CaptureOff)
  /\ [][Buffered /\ RowsOnlyAtRecordEnd /\ OutsideRecord]_vars

C23_Witness ==
  /\ pc = "parse" /\ with_metadata
  /\ seen["Record"] = 2
  /\ Len(emitted["records"]) = 2
  /\ Len(emitted["record_metadata"]) = 1
  /\ emitted["record_metadata"][1].record_id = 2

Inserting == \E t \in Tables : db'[t] # db[t]

IndexCreated == ~indexed /\ indexed'

LastCommit ==
  /\ pc = "parse" /\ pc' = "exited" /\ exit_status' = 0
  /\ db' = [t \in Tables |-> db[t] \o rows_by_table[t]]

CreatedAfterLoad == IndexCreated => LastCommit

MissingFileCreatesNone == error' = "FileNotFoundError" => indexed' = indexed

\* C27 (as claimed): a run creates no index before its last bulk insert is
\* committed, a run that ends with the missing-file error creates none, and no
\* index exists while rows are being inserted, in a first or a later run.
C27_NoIndexWhileInserting ==
  [][/\ CreatedAfterLoad
     /\ MissingFileCreatesNone
     /\ Inserting => ~indexed]_vars

\* C27 (amended): a run creates no index before its last bulk insert is
\* committed, and a run that ends with the missing-file error creates none; no
\* index exists while the first run into a store inserts rows, but a later run
\* inserts under the indexes that an earlier completed run has left.
C27_IndexesAfterLoad ==
  [][/\ CreatedAfterLoad
     /\ MissingFileCreatesNone
     /\ (Inserting /\ indexed) => nruns > 1
     /\ indexed => indexed']_vars

C27_Witness ==
  /\ nruns = 2 /\ pc = "parse"
  /\ indexed
  /\ db["records"] # base["records"]

FreshStore == base = EmptyTables

Committed(t) == SubSeq(db'[t], Len(db[t]) + 1, Len(db'[t]))

IdsFromOne ==
  \A t \in EntityTables : \A i \in DOMAIN db[t] : db[t][i].id = i

MetadataWithRecord ==
  \A i \in DOMAIN emitted["record_metadata"] :
    LET row == emitted["record_metadata"][i]
    IN (\E j \in DOMAIN db["record_metadata"] : db["record_metadata"][j] = row)
         <=> row.record_id \in Ids(db["records"])

PrefixCommitted ==
  (FreshStore /\ Inserting) =>
    /\ \A t \in Tables : db'[t] = emitted'[t]
    /\ \A i \in DOMAIN Committed("record_metadata") :
         \E j \in DOMAIN Committed("records") :
           Committed("records")[j].id = Committed("record_metadata")[i].record_id

\* C30: on a fresh store every commit of an ingest run leaves, in every table,
\* exactly the rows of the elements that have ended so far, a prefix of the
\* stream; every table holds the ids 1..k, and a record_metadata row is committed
\* exactly when the record row with its record_id is, in the same transaction.
C30_CommittedPrefix ==
  /\ [](FreshStore => (IdsFromOne /\ MetadataWithRecord))
  /\ [][PrefixCommitted]_vars

C30_Witness ==
  /\ FreshStore /\ pc = "parse" /\ with_metadata
  /\ Len(db["workouts"]) = 1
  /\ Len(db["records"]) = 1
  /\ Len(db["record_metadata"]) = 1
  /\ db["record_metadata"][1].record_id = 1

-----------------------------------------------------------------------------
(* Properties of a run with skip-existing disabled *)

\* both stages of a run without skip-existing are over
ReingestOver == ppc = "main_end" /\ ~skip_existing

\* the rows of a table that carry this path
RowsOfPath(table, path) ==
  LET HasPath(row) == row.file_path = path IN SelectSeq(table, HasPath)

\* the paths stored when the run started whose file the run has parsed and counted
RoutesMetAgain ==
  IF no_routes \/ routes_dir = None THEN {}
  ELSE {tables0[1][i].file_path : i \in DOMAIN tables0[1]} \cap
       {Join(ROUTES_DIR, name) :
          name \in {n \in DOMAIN Val(routes_dir) :
                      EndsWith(n, ".gpx") /\ PointsOf(n) # <<>>}}

EcgMetAgain ==
  IF no_ecg \/ ecg_dir = None THEN {}
  ELSE {tables0[3][i].file_path : i \in DOMAIN tables0[3]} \cap
       {Join(ECG_DIR, name) :
          name \in {n \in DOMAIN Val(ecg_dir) :
                      EndsWith(n, ".csv") /\ SamplesOf(n) # <<>>}}

\* C24 (as claimed): a run without skip-existing that meets a file whose path is
\* stored produces a new parent row, with a new id, for that path: the old and
\* the new row are both in the table.
C24_NewRowOnReingest ==
  ReingestOver =>
    /\ \A path \in RoutesMetAgain :
         \E row \in Range(RowsOfPath(workout_routes, path)) :
           row.id \notin Ids(tables0[1])
    /\ \A path \in EcgMetAgain :
         \E row \in Range(RowsOfPath(ecg_records, path)) :
           row.id \notin Ids(tables0[3])

\* C24 (amended): a run without skip-existing that meets a file whose path is
\* stored adds no parent row for that path: the insert is ignored, and the table
\* holds the one row of the path that it held before, with its id and values.
C24_ReingestIgnored ==
  ReingestOver =>
    /\ \A path \in RoutesMetAgain :
         /\ Len(RowsOfPath(workout_routes, path)) = 1
         /\ RowsOfPath(workout_routes, path) = RowsOfPath(tables0[1], path)
    /\ \A path \in EcgMetAgain :
         /\ Len(RowsOfPath(ecg_records, path)) = 1
         /\ RowsOfPath(ecg_records, path) = RowsOfPath(tables0[3], path)

\* a run without skip-existing has parsed and counted an ECG file whose path was
\* stored: its samples were written, the table of ECG rows is as it was
C24_Witness ==
  /\ ReingestOver /\ EcgMetAgain # {}
  /\ ecg_added = 1
  /\ ecg_records = tables0[3]
  /\ Len(ecg_samples) > Len(tables0[4])

\* C25 (as claimed): the two counts a run reports are the numbers of rows it
\* added to workout_routes and to ecg_records, in both skip-existing modes.
C25_ReportedCount ==
  ppc = "main_end" =>
    /\ routes_added = Len(workout_routes) - Len(tables0[1])
    /\ ecg_added = Len(ecg_records) - Len(tables0[3])

-----------------------------------------------------------------------------
(* Properties of the parse of one ECG file *)

Parsed == ephase = "done"

\* a decimal numeral: an optional sign, digits, and optionally a point and digits
IsNumeral(text) ==
  \E s \in 0..1, w \in 1..Len(text) :
    /\ s = 1 => text[1] \in {"+", "-"}
    /\ s + w <= Len(text)
    /\ \A i \in (s + 1)..(s + w) : text[i] \in Digits
    /\ \/ s + w = Len(text)
       \/ /\ s + w + 1 < Len(text)
          /\ text[s + w + 1] = "."
          /\ \A i \in (s + w + 2)..Len(text) : text[i] \in Digits

\* what Python's float accepts of the texts of the model: blanks around a sign,
\* digits and a point with digits on at least one side
IsFloatText(text) ==
  \E a, b \in 0..Len(text) :
    /\ a <= b
    /\ \A i \in 1..a : text[i] \in Blanks
    /\ \A i \in (b + 1)..Len(text) : text[i] \in Blanks
    /\ LET t == SubSeq(text, a + 1, b)
           u == IF t # <<>> /\ t[1] \in {"+", "-"} THEN Tail(t) ELSE t
       IN /\ \E i \in DOMAIN u : u[i] \in Digits
          /\ \A i \in DOMAIN u : u[i] \in Digits \cup {"."}
          /\ Cardinality({i \in DOMAIN u : u[i] = "."}) <= 1

Keys(dict) == {dict[i][1] : i \in DOMAIN dict}

\* the last row of two or more fields whose first field, through f, is key
LastWith(key, f(_)) ==
  LET at == {i \in DOMAIN csv_rows : Len(csv_rows[i]) >= 2 /\ f(csv_rows[i][1]) = key}
  IN csv_rows[CHOOSE i \in at : \A j \in at : j <= i]

Classified(numeric(_), f(_)) ==
  LET IsSample(row) == Len(row) = 1 /\ numeric(row[1])
      sampled == SelectSeq(csv_rows, IsSample)
  IN /\ Len(ecg_parsed.samples) = Len(sampled)
     /\ \A i \in DOMAIN sampled : ecg_parsed.samples[i] = NumberOf(strip(sampled[i][1]))
     /\ Keys(ecg_parsed.metadata) =
          {f(csv_rows[i][1]) : i \in {j \in DOMAIN csv_rows : Len(csv_rows[j]) >= 2}}
     /\ \A key \in Keys(ecg_parsed.metadata) :
          DictGet(ecg_parsed.metadata, key) = Some(f(LastWith(key, f)[2]))

AsIs(field) == field

NumeralTrimmed(field) == IsNumeral(strip(field))

\* C28 (as claimed): the samples are the single-field rows whose field is a
\* number, in file order; every row of two or more fields sets metadata[field 1]
\* to field 2, the last row of a key winning, and is no sample; other rows change
\* nothing.
C28_StructuralRows == Parsed => Classified(IsFloatText, AsIs)

\* C28 (amended): the samples are the single-field rows whose field, trimmed of
\* surrounding blanks, is a decimal numeral (optional sign, digits, optionally a
\* point and digits), in file order; every row of two or more fields sets
\* metadata[field 1 trimmed] to field 2 trimmed, the last row of a key winning,
\* and is no sample; other rows change nothing.
C28_StructuralRowsTrimmed == Parsed => Classified(NumeralTrimmed, strip)

C28_Witness ==
  /\ Parsed
  /\ csv_rows = <<<<KLeadPadded, VLeadIPadded>>, <<T30, T90>>, <<TPadded>>>>
  /\ ecg_parsed.samples = <<300>>
  /\ ecg_parsed.metadata = <<<<KLead, VLeadI>>, <<T30, T90>>>>

\* the first decimal number of a text: from its first digit, the digits that
\* follow and, if a point and a digit come next, the digits after the point
FirstNumber(text) ==
  LET first == CHOOSE i \in DOMAIN text :
                 text[i] \in Digits /\ \A k \in 1..(i - 1) : text[k] \notin Digits
      Run(i) == CHOOSE j \in i..Len(text) :
                  /\ \A k \in i..j : text[k] \in Digits
                  /\ j = Len(text) \/ text[j + 1] \notin Digits
      last == Run(first)
  IN IF last + 2 <= Len(text) /\ text[last + 1] = "." /\ text[last + 2] \in Digits
       THEN Tenths(SubSeq(text, first, last), SubSeq(text, last + 2, Run(last + 2)))
       ELSE Tenths(SubSeq(text, first, last), <<>>)

\* C29: the sample rate of the row built for a file is the first decimal number
\* in the raw value of its Sample Rate entry, and null when there is no such
\* entry, when its value is empty and when its value holds no digit.
C29_SampleRate ==
  (Parsed /\ ecg_row # None) =>
    LET raw == DictGet(ecg_parsed.metadata, KRate)
        rate == Val(ecg_row).sample_rate_hz
    IN /\ IF raw = None \/ \A i \in DOMAIN Val(raw) : Val(raw)[i] \notin Digits
            THEN rate = None
            ELSE rate = Some(FirstNumber(Val(raw)))
       /\ (raw = Some(T300Hz)) => rate = Some(3000)

C29_Witness ==
  /\ Parsed /\ ecg_row # None
  /\ csv_rows = <<<<KRate, <<"Hz", "3", "0">>>>, <<T30>>>>
  /\ Val(ecg_row).sample_rate_hz = Some(300)

-----------------------------------------------------------------------------
(* Properties of the inventory's element-count cap *)

InventoryWritten == ipc = "exited" /\ inventory_status = 0

\* how many elements the loop is to process under a cap
Allowed(cap, n) == IF cap > 0 /\ cap < n THEN cap ELSE n

\* how many of the first n elements of the export have the tag
Among(n, tag) == Cardinality({i \in 1..n : export[i].tag = tag})

\* C26 (as stated): a run with the cap k > 0 stops after k processed elements
\* and leaves a store that holds exactly the rows of those first k elements;
\* with no cap the whole stream is processed.
C26_CappedStore ==
  InventoryWritten =>
    /\ max_elements > 0 =>
         /\ processed = Allowed(max_elements, Len(export))
         /\ \A tag \in Kinds : Len(db[TableOf(tag)]) = Among(processed, tag)
    /\ max_elements = 0 => processed = Len(export)

\* C26 (amended): the cap belongs to the inventory, which writes a summary and
\* no store. With the cap k > 0 the run stops after k processed elements and
\* the summary it writes counts exactly those first k elements, with nothing
\* that marks it as partial; with no cap the whole stream is counted.
C26_InventoryCap ==
  InventoryWritten =>
    /\ max_elements > 0 => processed = Allowed(max_elements, Len(export))
    /\ max_elements = 0 => processed = Len(export)
    /\ \A tag \in Kinds : Count(counters.totals, tag) = Among(processed, tag)
    /\ DOMAIN counters.totals \subseteq Kinds
    /\ inventory = Some(json_dumps(counters))
    /\ db = EmptyTables

\* a capped run that stopped before the end of an export, with rows of the
\* store's kinds both counted and left out
C26_Witness ==
  /\ InventoryWritten
  /\ max_elements > 0
  /\ processed = max_elements
  /\ processed < Len(export)
  /\ \E tag \in Kinds : Among(processed, tag) > 0
  /\ \E tag \in Kinds : Among(Len(export), tag) > Among(processed, tag)

====
